---- MODULE Spec2Model ----
(***************************************************************************)
(* Scenario persistence, batch execution and component-graph assembly of   *)
(* GreenLogix_Cherry (simulation/scenarios.py, simulation/run_scenarios.py,*)
(* core/model.py, core/model_bis.py, core/model_biogas.py).                *)
(*                                                                         *)
(* Conventions.  A Python dict is a TLA+ function whose DOMAIN is the set  *)
(* of keys that are present.  Python None is the value None below; no      *)
(* string of the value sets equals it.  Numbers are integers (int and      *)
(* float fields alike: Python compares 0 and 0.0 equal and JSON keeps      *)
(* both).  A raised exception is a record with a non-empty err field.      *)
(***************************************************************************)
EXTENDS Integers, Sequences, FiniteSets, TLC

VARIABLES
    clock,      \* wall clock in seconds, read by datetime.now()
    obj,        \* SpecScenario: the Scenario instance under test
    doc,        \* SpecScenario: the dict handed to from_dict
    loaded,     \* SpecScenario: what from_dict returned or raised
    edit,       \* SpecScenario: how doc was changed after to_dict
    spc,        \* SpecScenario: position of the driver
    fileState,  \* the scenario store: "absent" or "json" (a readable document)
    file,       \* the stored JSON document: key -> scenario document
    mgr,        \* ScenarioManager.scenarios of the manager under test
    fresh,      \* a ScenarioManager constructed afterwards on the same file
    ret,        \* what the last get_scenario returned
    last,       \* the last call on the manager: number, operation, key, exception, wrote
    allNormal,  \* no call on the manager has raised so far
    wroteOnce,  \* some call on the manager has rewritten the store
    peer,       \* a second ScenarioManager open on the same file at the same time
    batch,      \* run_all_scenarios: the names it iterates, in store order
    idx,        \* run_all_scenarios: index of the current name
    bpc,        \* run_all_scenarios: position of the driver
    rpc,        \* run_scenario: position within the current run
    runMgr,     \* run_scenario: the scenarios of its own ScenarioManager
    runPath,    \* run_scenario: results_path of the current run
    output,     \* the per-scenario lines printed by the driver
    failed,     \* failed_scenarios
    summary,    \* successful_count of the final summary
    attempts,   \* the names run_scenario has been called with
    raisedAt,   \* the indexes whose run raised
    artifacts,  \* the result files save_results has written
    before,     \* the store as it was when the current run was called
    variant,    \* which model file is imported: "model", "model_bis", "model_biogas"
    gpc,        \* index of the next assembly statement of that file
    gerr,       \* the exception that ended the assembly, NoError if none
    components, \* Model: component name -> the instance added under it
    connections,\* Model: the set of connections [src, dst], a port being <<instance, port>>
    slots,      \* port data: <<component name, attribute>> -> what was last bound
    slotsBefore,\* slots before the last binding call
    table,      \* the input (column or key -> data version) of the last binding call
    probe,      \* the last call on the assembled Model and its outcome
    sheet,      \* simulation/Scenarios.xlsx: absent, unreadable, or a table of rows
    totals,     \* the column sums of a results file, in half euros
    acall,      \* the last call of the analysis functions and what it returned
    overview,   \* the costs of the last create_scenario_overview
    gen         \* get_data: its arguments and the windows it generated

varsScenario == <<obj, doc, loaded, edit, spc>>
varsStore == <<fileState, file, mgr, fresh, ret, last, allNormal, wroteOnce>>
varsBatch == <<batch, idx, bpc, rpc, runMgr, runPath, output, failed, summary,
               attempts, raisedAt, artifacts, before>>
varsGraph == <<variant, gpc, gerr, components, connections, slots, slotsBefore, table, probe>>
varsAnalysis == <<sheet, totals, acall, overview>>
varsData == <<gen>>
varsShared == <<peer>>
vars == <<clock, varsScenario, varsStore, varsBatch, varsGraph, varsAnalysis, varsData, varsShared>>
notClock == <<varsScenario, varsStore, varsBatch, varsGraph, varsAnalysis, varsData, varsShared>>
notScenario == <<varsStore, varsBatch, varsGraph, varsAnalysis, varsData, varsShared>>
notStore == <<varsScenario, varsBatch, varsGraph, varsAnalysis, varsData, varsShared>>
notBatch == <<varsScenario, varsGraph, varsAnalysis, varsData, varsShared>>
notGraph == <<clock, varsScenario, varsStore, varsBatch, varsAnalysis, varsData, varsShared>>
notAnalysis == <<clock, varsScenario, varsStore, varsBatch, varsGraph, varsData, varsShared>>
notData == <<clock, varsScenario, varsStore, varsBatch, varsGraph, varsAnalysis, varsShared>>


(***************************************************************************)
(* Bounds                                                                  *)
(***************************************************************************)
MaxClock == 2
MaxCalls == 3
MaxProbes == 2
MaxRows == 2

(***************************************************************************)
(* Values                                                                  *)
(***************************************************************************)
None == "<None>"
NoneObject == [py_none |-> TRUE]
NotCalled == [not_called |-> TRUE]
EmptyDict == <<>>
NoError == ""

\* datetime.now().strftime("%Y-%m-%d %H:%M:%S"): one string per second.
Strftime(t) == "2025-01-01 00:00:0" \o ToString(t)

\* model_to_flex.core.enums: an Enum member is not its value; Enum(value)
\* returns the member with that value and raises ValueError for any other.
BuilderTypeValue == ("BuilderType.PYOMO" :> "pyomo") @@ ("BuilderType.OTHER" :> "other_builder")
SolverTypeValue == ("SolverType.CBC" :> "cbc") @@ ("SolverType.OTHER" :> "other_solver")
DispatchTypeValue == ("DispatchType.MONTHLY" :> "monthly") @@ ("DispatchType.ROLLING" :> "rolling")

EnumValueOf == [builder_type |-> BuilderTypeValue, solver |-> SolverTypeValue,
                dispatch_type |-> DispatchTypeValue]

EnumFields == {"builder_type", "solver", "dispatch_type"}

\* member.value; a str has no attribute value (AttributeError).
HasValueAttr(f, m) == m \in DOMAIN EnumValueOf[f]
ValueAttr(f, m) == EnumValueOf[f][m]

\* EnumClass(v): v is a member value, or a member itself.
EnumAccepts(f, v) == \/ v \in DOMAIN EnumValueOf[f]
                     \/ \E m \in DOMAIN EnumValueOf[f] : EnumValueOf[f][m] = v
EnumCall(f, v) == IF v \in DOMAIN EnumValueOf[f] THEN v
                  ELSE CHOOSE m \in DOMAIN EnumValueOf[f] : EnumValueOf[f][m] = v

(***************************************************************************)
(* The Scenario dataclass                                                  *)
(***************************************************************************)
TariffFields == {
    "elec_offtake_contract_param_a", "elec_offtake_contract_param_b",
    "elec_injection_contract_param_a", "elec_injection_contract_param_b",
    "elec_grid_cost_energy", "elec_grid_cost_power_peak",
    "elec_grid_cost_power_fixed", "elec_grid_cost_max_tariff",
    "elec_offtake_tax_energy", "gas_offtake_contract_param_a",
    "gas_offtake_contract_param_b", "gas_grid_cost_energy"}

EquipmentFields == {
    "gas_turbine_minload_electricity_capacity", "gas_turbine_maxload_electricity_capacity",
    "gas_turbine_minload_electricity_efficiency", "gas_turbine_maxload_electricity_efficiency",
    "gas_turbine_minload_heat_efficiency", "gas_turbine_maxload_heat_efficiency",
    "gas_boiler_efficiency", "gas_boiler_capacity", "e_boiler_efficiency",
    "e_boiler_capacity", "hrsg_efficiency", "hrsg_capacity"}

WindowFields == {"name", "description", "price_starttime", "demand_starttime", "length"}

\* Fields without a default (lines 14-42).
RequiredFields == WindowFields \cup EquipmentFields \cup TariffFields

DispatchFields == {"optimizer_type", "builder_type", "solver", "dispatch_type",
                   "pred_hor", "contr_hor"}
MetaFields == {"created_at", "results_path"}

\* Fields with a default (lines 45-53).
DataclassDefaults == [freq |-> "h", optimizer_type |-> "default",
                      builder_type |-> "BuilderType.PYOMO", solver |-> "SolverType.CBC",
                      dispatch_type |-> "DispatchType.MONTHLY",
                      pred_hor |-> 768, contr_hor |-> 768,
                      created_at |-> None, results_path |-> None]

AllFields == RequiredFields \cup DOMAIN DataclassDefaults

\* The top-level keys to_dict writes beside the two nested dicts.
FlatFields == RequiredFields \cup {"freq"}

\* __post_init__: a missing creation time is the time of construction.
post_init(s, now) ==
    IF s.created_at = None THEN [s EXCEPT !.created_at = Strftime(now)] ELSE s

\* Scenario(**kw): TypeError for an unexpected keyword or a missing required one.
ScenarioAccepts(kw) == /\ DOMAIN kw \subseteq AllFields
                       /\ RequiredFields \subseteq DOMAIN kw
Scenario(kw, now) ==
    post_init([f \in AllFields |-> IF f \in DOMAIN kw THEN kw[f] ELSE DataclassDefaults[f]], now)

\* A to_dict whose metadata block repeats created_at under results_path.
to_dict_repeated_key(s) ==
    [k \in FlatFields \cup {"dispatch_options", "metadata"} |->
        IF k = "dispatch_options"
        THEN [optimizer_type |-> s.optimizer_type,
              builder_type |-> ValueAttr("builder_type", s.builder_type),
              solver |-> ValueAttr("solver", s.solver),
              dispatch_type |-> ValueAttr("dispatch_type", s.dispatch_type),
              pred_hor |-> s.pred_hor, contr_hor |-> s.contr_hor]
        ELSE IF k = "metadata"
        THEN [created_at |-> s.created_at, results_path |-> s.created_at]
        ELSE s[k]]

\* to_dict raises AttributeError when an enum field holds no enum member.
to_dict_ok(s) == \A f \in EnumFields : HasValueAttr(f, s[f])
to_dict(s) ==
    [k \in FlatFields \cup {"dispatch_options", "metadata"} |->
        IF k = "dispatch_options"
        THEN [optimizer_type |-> s.optimizer_type,
              builder_type |-> ValueAttr("builder_type", s.builder_type),
              solver |-> ValueAttr("solver", s.solver),
              dispatch_type |-> ValueAttr("dispatch_type", s.dispatch_type),
              pred_hor |-> s.pred_hor, contr_hor |-> s.contr_hor]
        ELSE IF k = "metadata"
        THEN [created_at |-> s.created_at, results_path |-> s.results_path]
        ELSE s[k]]

\* dict helpers
Pop(d, k, default) == IF k \in DOMAIN d THEN d[k] ELSE default
Without(d, ks) == [k \in DOMAIN d \ ks |-> d[k]]
Update(d, e) == [k \in DOMAIN d \cup DOMAIN e |-> IF k \in DOMAIN e THEN e[k] ELSE d[k]]

\* Defaults from_dict fills in for keys a stored document lacks (lines 126-139).
FromDictDefaults == [
    elec_offtake_contract_param_a |-> 1, elec_offtake_contract_param_b |-> 0,
    elec_injection_contract_param_a |-> 1, elec_injection_contract_param_b |-> 0,
    elec_grid_cost_energy |-> 0, elec_grid_cost_power_peak |-> 0,
    elec_grid_cost_power_fixed |-> 0, elec_grid_cost_max_tariff |-> 0,
    elec_offtake_tax_energy |-> 0, gas_offtake_contract_param_a |-> 1,
    gas_offtake_contract_param_b |-> 0, gas_grid_cost_energy |-> 0]

\* A migration that keeps the top-level value of a field given in both places.
FromDictMergedTopLevelFirst(data) ==
    LET rest == Without(data, {"dispatch_options", "metadata", "equipment_params"})
        equipment_params == Pop(data, "equipment_params", EmptyDict)
    IN  Update(equipment_params, rest)

\* from_dict, lines 109-116: the three pops and the migration of equipment_params.
FromDictMerged(data) ==
    LET rest == Without(data, {"dispatch_options", "metadata", "equipment_params"})
        equipment_params == Pop(data, "equipment_params", EmptyDict)
    IN  IF equipment_params # EmptyDict THEN Update(rest, equipment_params) ELSE rest

\* Defaults written over every one of the twelve keys, present or not.
FromDictDefaultedOverwriting(data) == Update(FromDictMerged(data), FromDictDefaults)

\* from_dict, lines 141-144: defaults for the keys that are still missing.
FromDictDefaulted(data) ==
    LET merged == FromDictMerged(data)
    IN  [k \in DOMAIN merged \cup DOMAIN FromDictDefaults |->
            IF k \in DOMAIN merged THEN merged[k] ELSE FromDictDefaults[k]]

\* from_dict, lines 119-123: the enum strings become members again.
FromDictOptions(data) ==
    LET dispatch_options == Pop(data, "dispatch_options", EmptyDict)
    IN  [k \in DOMAIN dispatch_options |->
            IF k \in EnumFields THEN EnumCall(k, dispatch_options[k])
            ELSE dispatch_options[k]]

\* Which exception from_dict raises on data, NoError when it returns.
FromDictError(data) ==
    LET dispatch_options == Pop(data, "dispatch_options", EmptyDict)
        metadata == Pop(data, "metadata", EmptyDict)
        flat == FromDictDefaulted(data)
    IN  IF "builder_type" \notin DOMAIN dispatch_options THEN "KeyError"
        ELSE IF ~EnumAccepts("builder_type", dispatch_options.builder_type) THEN "ValueError"
        ELSE IF "solver" \notin DOMAIN dispatch_options THEN "KeyError"
        ELSE IF ~EnumAccepts("solver", dispatch_options.solver) THEN "ValueError"
        ELSE IF "dispatch_type" \notin DOMAIN dispatch_options THEN "KeyError"
        ELSE IF ~EnumAccepts("dispatch_type", dispatch_options.dispatch_type) THEN "ValueError"
        ELSE IF \/ DOMAIN flat \cap DOMAIN dispatch_options # {}
                \/ DOMAIN flat \cap DOMAIN metadata # {}
                \/ DOMAIN dispatch_options \cap DOMAIN metadata # {}
                \/ ~ScenarioAccepts(Update(Update(flat, dispatch_options), metadata))
             THEN "TypeError"
        ELSE NoError

\* A from_dict that works on a copy and leaves the dict of its caller alone.
from_dict_on_copy(data, now) ==
    LET err == FromDictError(data)
        metadata == Pop(data, "metadata", EmptyDict)
    IN  [err |-> err,
         scenario |-> IF err = NoError
                      THEN Scenario(Update(Update(FromDictDefaulted(data),
                                                  FromDictOptions(data)), metadata), now)
                      ELSE NoneObject,
         data |-> data]

\* Scenario.from_dict(data) at time now: the exception or the Scenario, and
\* the dict as the call leaves it (the pops and the defaults act on it).
from_dict(data, now) ==
    LET err == FromDictError(data)
        metadata == Pop(data, "metadata", EmptyDict)
        enumsDone == err \notin {"KeyError", "ValueError"}
    IN  [err |-> err,
         scenario |-> IF err = NoError
                      THEN Scenario(Update(Update(FromDictDefaulted(data),
                                                  FromDictOptions(data)), metadata), now)
                      ELSE NoneObject,
         data |-> IF enumsDone THEN FromDictDefaulted(data) ELSE FromDictMerged(data)]

(***************************************************************************)
(* ScenarioManager: the store and the operations on it                     *)
(***************************************************************************)
JsonNull == "null"

\* json.dump / json.load of one scenario document: str, int and float
\* leaves keep their value, None is written as null and read back as None
\* (in the documents of this model only metadata values can be None).
JsonEncodeLeaf(v) == IF v = None THEN JsonNull ELSE v
\* A reader that hands null back as text.
JsonDecodeLeafAsText(j) == j
JsonDecodeLeaf(j) == IF j = JsonNull THEN None ELSE j
JsonEncodeDoc(d) ==
    [k \in DOMAIN d |->
        IF k = "metadata" THEN [m \in DOMAIN d[k] |-> JsonEncodeLeaf(d[k][m])] ELSE d[k]]
JsonDecodeDoc(j) ==
    [k \in DOMAIN j |->
        IF k = "metadata" THEN [m \in DOMAIN j[k] |-> JsonDecodeLeaf(j[k][m])] ELSE j[k]]
json_dump(data) == [k \in DOMAIN data |-> JsonEncodeDoc(data[k])]
json_load(text) == [k \in DOMAIN text |-> JsonDecodeDoc(text[k])]

\* A load that leaves out the records that do not load and keeps the others.
load_scenarios_skipping(state, text, now) ==
    IF state = "absent" THEN [err |-> NoError, scenarios |-> EmptyDict]
    ELSE IF state = "torn" THEN [err |-> "JSONDecodeError", scenarios |-> EmptyDict]
    ELSE LET data == json_load(text)
             good == { k \in DOMAIN data : from_dict(data[k], now).err = NoError }
         IN  [err |-> NoError, scenarios |-> [k \in good |-> from_dict(data[k], now).scenario]]

\* load_scenarios (lines 158-166): nothing to read when the file is absent;
\* json.load raises on a text that is not a whole JSON document; otherwise
\* every record goes through from_dict and one failure fails the load.
load_scenarios(state, text, now) ==
    IF state = "absent" THEN [err |-> NoError, scenarios |-> EmptyDict]
    ELSE IF state = "torn" THEN [err |-> "JSONDecodeError", scenarios |-> EmptyDict]
    ELSE LET data == json_load(text)
             errs == {from_dict(data[k], now).err : k \in DOMAIN data} \ {NoError}
         IN  IF errs = {}
             THEN [err |-> NoError,
                   scenarios |-> [k \in DOMAIN data |-> from_dict(data[k], now).scenario]]
             ELSE [err |-> CHOOSE e \in errs : TRUE, scenarios |-> EmptyDict]

\* A save that writes the records of the collection over the stored ones
\* and keeps every stored record it does not write.
StoreDocumentAppending(scenarios, old) ==
    Update(old, json_dump([k \in DOMAIN scenarios |-> to_dict(scenarios[k])]))

\* save_scenarios, line 170 and 172: the document written is built from the
\* in-memory collection alone.
StoreDocument(scenarios, old) ==
    json_dump([k \in DOMAIN scenarios |-> to_dict(scenarios[k])])

\* A save that reads the store first and keeps a stored results_path where
\* the in-memory scenario has none.
save_scenarios_keeping_paths(scenarios, state, text) ==
    IF \E k \in DOMAIN scenarios : ~to_dict_ok(scenarios[k])
    THEN [err |-> "AttributeError", fileState |-> state, file |-> text]
    ELSE LET written == StoreDocument(scenarios, text)
             kept(k) == /\ k \in DOMAIN text
                        /\ "metadata" \in DOMAIN text[k]
                        /\ written[k].metadata.results_path = JsonNull
         IN  [err |-> NoError, fileState |-> "json",
              file |-> [k \in DOMAIN written |->
                          IF kept(k)
                          THEN [written[k] EXCEPT !.metadata.results_path =
                                                      text[k].metadata.results_path]
                          ELSE written[k]]]

\* save_scenarios (lines 168-172): to_dict of every scenario (line 170) runs
\* before the file is opened, so an AttributeError leaves the file as it was.
save_scenarios(scenarios, state, text) ==
    IF \E k \in DOMAIN scenarios : ~to_dict_ok(scenarios[k])
    THEN [err |-> "AttributeError", fileState |-> state, file |-> text]
    ELSE [err |-> NoError, fileState |-> "json", file |-> StoreDocument(scenarios, text)]

\* A save that opens a temporary file and leaves the store alone until the
\* text is complete.
OpenTemporary(state, text, written) == [fileState |-> state, file |-> text]

\* save_scenarios, line 171: open(self.scenarios_file, "w") creates or
\* truncates the file; until json.dump (line 172) has finished the file
\* holds a proper prefix of the new text, here the records that are
\* already complete in it.
OpenForWriting(state, text, written) == [fileState |-> "torn", file |-> written]

\* A lookup by subscript: self.scenarios[name].
get_scenario_subscript(scenarios, name) ==
    IF name \in DOMAIN scenarios THEN [err |-> NoError, value |-> scenarios[name]]
    ELSE [err |-> "KeyError", value |-> NoneObject]

\* get_scenario (lines 179-181): dict.get, None for a missing key.
get_scenario(scenarios, name) ==
    IF name \in DOMAIN scenarios THEN [err |-> NoError, value |-> scenarios[name]]
    ELSE [err |-> NoError, value |-> NoneObject]

\* A setattr loop that ignores a keyword that is not a field of Scenario.
SetAttrsFieldsOnly(s, kw) ==
    Update(s, [k \in DOMAIN kw \cap AllFields |-> kw[k]])

\* setattr(scenario, key, value) for every keyword (lines 191-192). The
\* dataclass has no __slots__: a keyword that is no field becomes a new
\* attribute of the instance.
SetAttrs(s, kw) == Update(s, kw)

(***************************************************************************)
(* Inputs of the Scenario specification                                    *)
(***************************************************************************)
ScenarioNames == {"A", "B"}

\* Keyword arguments for the required fields; every tariff value differs
\* from the default from_dict would fill in for it.
BaseArgs(name) == [
    name |-> name, description |-> "case " \o name,
    price_starttime |-> "2025-01-01", demand_starttime |-> "2022-01-01", length |-> 720,
    gas_turbine_minload_electricity_capacity |-> 3, gas_turbine_maxload_electricity_capacity |-> 4,
    gas_turbine_minload_electricity_efficiency |-> 31, gas_turbine_maxload_electricity_efficiency |-> 32,
    gas_turbine_minload_heat_efficiency |-> 46, gas_turbine_maxload_heat_efficiency |-> 47,
    gas_boiler_efficiency |-> 85, gas_boiler_capacity |-> 26, e_boiler_efficiency |-> 100,
    e_boiler_capacity |-> 10, hrsg_efficiency |-> 1, hrsg_capacity |-> 11,
    elec_offtake_contract_param_a |-> 2, elec_offtake_contract_param_b |-> 5,
    elec_injection_contract_param_a |-> 3, elec_injection_contract_param_b |-> 6,
    elec_grid_cost_energy |-> 7, elec_grid_cost_power_peak |-> 8,
    elec_grid_cost_power_fixed |-> 9, elec_grid_cost_max_tariff |-> 12,
    elec_offtake_tax_energy |-> 13, gas_offtake_contract_param_a |-> 4,
    gas_offtake_contract_param_b |-> 14, gas_grid_cost_energy |-> 15]

\* Optional keyword arguments: any subset of the enum fields set to the
\* non-default member, created_at and results_path given or left out.
OptionalArgs ==
    { [k \in ks |-> CASE k = "builder_type" -> "BuilderType.OTHER"
                      [] k = "solver" -> "SolverType.OTHER"
                      [] k = "dispatch_type" -> "DispatchType.ROLLING"
                      [] k = "created_at" -> "2024-06-01 12:00:00"
                      [] k = "results_path" -> "results/old/results_20240601_120000"] :
      ks \in SUBSET (EnumFields \cup MetaFields) }

ScenarioArgs == { Update(BaseArgs(n), o) : n \in ScenarioNames, o \in OptionalArgs }

(***************************************************************************)
(* Specification of the Scenario record: construct, to_dict, optional      *)
(* removal of one key from the document, from_dict.                        *)
(***************************************************************************)
\* The store part at rest, for the specifications that do not use it.
IdleStore == /\ fileState = "absent"
             /\ file = EmptyDict
             /\ mgr = EmptyDict
             /\ fresh = NotCalled
             /\ ret = NotCalled
             /\ last = [n |-> 0, op |-> "none", key |-> "", kw |-> {}, err |-> NoError, wrote |-> FALSE]
             /\ allNormal = TRUE
             /\ wroteOnce = FALSE

IdleScenario == /\ obj = NotCalled
                /\ doc = EmptyDict
                /\ loaded = NotCalled
                /\ edit = "none"
                /\ spc = "start"

IdleBatch == /\ batch = <<>>
             /\ idx = 0
             /\ bpc = "start"
             /\ rpc = "idle"
             /\ runMgr = EmptyDict
             /\ runPath = None
             /\ output = <<>>
             /\ failed = <<>>
             /\ summary = -1
             /\ attempts = <<>>
             /\ raisedAt = {}
             /\ artifacts = {}
             /\ before = [fileState |-> "absent", file |-> EmptyDict]

NoPort == <<"", "">>
NoProbe == [n |-> 0, op |-> "none", err |-> NoError, id |-> "", src |-> NoPort, dst |-> NoPort]

IdleGraph == /\ variant = "none"
             /\ gpc = 0
             /\ gerr = NoError
             /\ components = EmptyDict
             /\ connections = {}
             /\ slots = EmptyDict
             /\ slotsBefore = EmptyDict
             /\ table = EmptyDict
             /\ probe = NoProbe

NoAnalysisCall == [op |-> "none", name |-> "", err |-> NoError, value |-> 0]
NoOverview == [gas |-> 0, net |-> 0, toegangsvermogen |-> 0, co2 |-> 0, total_costs |-> 0]

IdleAnalysis == /\ sheet = [state |-> "absent", columns |-> {}, rows |-> <<>>]
                /\ totals = EmptyDict
                /\ acall = NoAnalysisCall
                /\ overview = NoOverview

NoGetData == [pc |-> "none", price_starttime |-> 0, demand_starttime |-> 0, length |-> 0,
              freq |-> "h", prices |-> <<>>, demands |-> <<>>]

IdleData == gen = NoGetData

IdleShared == peer = NotCalled

InitScenario == IdleScenario

\* datetime.now() advances between any two steps.
Tick == /\ clock < MaxClock
        /\ clock' = clock + 1

ScnConstruct == /\ spc = "start"
                /\ \E kw \in ScenarioArgs : obj' = Scenario(kw, clock)
                /\ spc' = "built"
                /\ UNCHANGED <<clock, doc, loaded, edit, notScenario>>

ScnToDict == /\ spc = "built"
             /\ to_dict_ok(obj)
             /\ doc' = to_dict(obj)
             /\ spc' = "dumped"
             /\ UNCHANGED <<clock, obj, loaded, edit, notScenario>>

\* A document stored before one of the tariff fields existed.
ScnDropKey == /\ spc = "dumped"
              /\ edit = "none"
              /\ \E k \in TariffFields : /\ doc' = Without(doc, {k})
                                          /\ edit' = k
              /\ UNCHANGED <<clock, obj, loaded, spc, notScenario>>

\* The groups of fields an older document holds under equipment_params:
\* none, one, all equipment fields, and a tariff field along with them.
NestChoices == {
    [tag |-> "empty", fields |-> {}],
    [tag |-> "one", fields |-> {"hrsg_capacity"}],
    [tag |-> "equipment", fields |-> EquipmentFields],
    [tag |-> "tariff", fields |-> EquipmentFields \cup {"gas_grid_cost_energy"}] }

NestModes == {"nested", "both"}

NestEdits == { mode \o ":" \o c.tag : mode \in NestModes, c \in NestChoices }

\* A value for the top level that differs from the nested one.
Stale(v) == v + 1000

\* A document in the older shape: the chosen fields sit under
\* equipment_params, and either are absent from the top level ("nested") or
\* are there as well with another value ("both").
ScnNest == /\ spc = "dumped"
           /\ edit = "none"
           /\ \E c \in NestChoices, mode \in NestModes :
                 LET nested == [f \in c.fields |-> doc[f]]
                     top == IF mode = "nested" THEN Without(doc, c.fields)
                            ELSE [k \in DOMAIN doc |-> IF k \in c.fields THEN Stale(doc[k]) ELSE doc[k]]
                 IN  /\ doc' = Update(top, [k \in {"equipment_params"} |-> nested])
                     /\ edit' = mode \o ":" \o c.tag
           /\ UNCHANGED <<clock, obj, loaded, spc, notScenario>>

\* Documents whose dispatch options do not load: the block is missing, one
\* of the three enum keys is missing, or one holds a string that is no
\* member value.
OptionEdits == {"options:none"} \cup { "options:-" \o f : f \in EnumFields }
                                \cup { "options:bad:" \o f : f \in EnumFields }
NotAMember == "nonsense"

ScnEditOptions ==
    /\ spc = "dumped"
    /\ edit = "none"
    /\ \/ /\ doc' = Without(doc, {"dispatch_options"})
          /\ edit' = "options:none"
       \/ \E f \in EnumFields :
             /\ doc' = [doc EXCEPT !.dispatch_options = Without(doc.dispatch_options, {f})]
             /\ edit' = "options:-" \o f
       \/ \E f \in EnumFields :
             /\ doc' = [doc EXCEPT !.dispatch_options = [@ EXCEPT ![f] = NotAMember]]
             /\ edit' = "options:bad:" \o f
       \/ /\ doc' = Without(doc, {"metadata"})
          /\ edit' = "metadata:none"
    /\ UNCHANGED <<clock, obj, loaded, spc, notScenario>>

\* ScenarioManager() on a file that holds the document next to a record
\* as save_scenarios writes it.
ScnLoadStore ==
    /\ spc = "dumped"
    /\ LET other == JsonEncodeDoc(to_dict(Scenario(BaseArgs("other"), 0)))
           r == load_scenarios("json", [other |-> other, this |-> JsonEncodeDoc(doc)], clock)
       IN  loaded' = [err |-> r.err, scenarios |-> r.scenarios]
    /\ spc' = "stored"
    /\ UNCHANGED <<clock, obj, doc, edit, notScenario>>

ScnFromDict == /\ spc = "dumped"
               /\ loaded' = from_dict(doc, clock)
               /\ doc' = from_dict(doc, clock).data
               /\ spc' = "loaded"
               /\ UNCHANGED <<clock, obj, edit, notScenario>>

\* from_dict once more on the same dict object.
ScnFromDictAgain == /\ spc = "loaded"
                    /\ loaded' = from_dict(doc, clock)
                    /\ doc' = from_dict(doc, clock).data
                    /\ spc' = "reloaded"
                    /\ UNCHANGED <<clock, obj, edit, notScenario>>

ScnReset == /\ spc \in {"loaded", "reloaded", "stored"}
            /\ obj' = NotCalled
            /\ doc' = EmptyDict
            /\ loaded' = NotCalled
            /\ edit' = "none"
            /\ spc' = "start"
            /\ UNCHANGED <<clock, notScenario>>

NextScenario == \/ ScnConstruct
                \/ ScnToDict
                \/ ScnDropKey
                \/ ScnNest
                \/ ScnEditOptions
                \/ ScnLoadStore
                \/ ScnFromDict
                \/ ScnFromDictAgain
                \/ ScnReset
                \/ (Tick /\ UNCHANGED notClock)

StartScenario == InitScenario /\ IdleStore /\ IdleBatch /\ IdleGraph /\ IdleAnalysis /\ IdleData /\ IdleShared /\ clock = 0
SpecScenario == StartScenario /\ [][NextScenario]_vars

(***************************************************************************)
(* Claims on the Scenario record                                           *)
(***************************************************************************)

\* C1: Scenario.from_dict(S.to_dict()) returns a Scenario whose every field
\* equals the field of S (enum fields are the same member, found by value).
C1_RoundTrip ==
    (spc = "loaded" /\ edit = "none") =>
        /\ loaded.err = NoError
        /\ \A f \in AllFields : loaded.scenario[f] = obj[f]

\* C1 witness: a round trip of a scenario with non-default enum members, a
\* results path and a defaulted creation time, loaded at a later time.
C1_Witness ==
    /\ spc = "loaded" /\ edit = "none"
    /\ obj.builder_type = "BuilderType.OTHER" /\ obj.dispatch_type = "DispatchType.ROLLING"
    /\ obj.results_path # None
    /\ obj.created_at = Strftime(0) /\ clock > 0
    /\ loaded.err = NoError

ThreeParamA == {"elec_offtake_contract_param_a", "elec_injection_contract_param_a",
                "gas_offtake_contract_param_a"}

\* C2 as stated: a document lacking one of the twelve defaulted fields loads
\* and the field is 0 in the loaded Scenario.
C2_DefaultIsZero ==
    (spc = "loaded" /\ edit \in TariffFields) =>
        /\ loaded.err = NoError
        /\ loaded.scenario[edit] = 0

\* C2 amended: the document loads; the missing field is 1 for the three
\* contract_param_a fields and 0 for the other nine, and every other field
\* is the stored one.
C2_DefaultPerField ==
    (spc = "loaded" /\ edit \in TariffFields) =>
        /\ loaded.err = NoError
        /\ loaded.scenario[edit] = (IF edit \in ThreeParamA THEN 1 ELSE 0)
        /\ \A f \in AllFields \ {edit} : loaded.scenario[f] = obj[f]

\* C2 witness: gas_grid_cost_energy was missing and the load succeeded.
C2_Witness ==
    /\ spc = "loaded" /\ edit = "gas_grid_cost_energy"
    /\ loaded.err = NoError
    /\ obj.gas_grid_cost_energy # 0

\* C16: a document whose fields are nested under equipment_params loads to
\* the Scenario the flat document loads to: every field is the one of the
\* Scenario the document was written from, so a nested value is never
\* replaced by a default, and a nested value is used rather than a
\* top-level value of the same field; the dict is left flat, without the
\* equipment_params key.
C16_NestedMigration ==
    (spc = "loaded" /\ edit \in NestEdits) =>
        /\ loaded.err = NoError
        /\ \A f \in AllFields : loaded.scenario[f] = obj[f]
        /\ "equipment_params" \notin DOMAIN doc
        /\ \A f \in EquipmentFields \cup TariffFields : doc[f] = obj[f]

\* C16 witness: the equipment fields and a tariff field whose stored value
\* is not the default were given in both places and the document loaded.
C16_Witness ==
    /\ spc = "loaded" /\ edit = "both:tariff"
    /\ loaded.err = NoError
    /\ loaded.scenario.gas_grid_cost_energy # FromDictDefaults.gas_grid_cost_energy
    /\ loaded.scenario.hrsg_capacity = obj.hrsg_capacity

PoppedKeys == {"dispatch_options", "metadata", "equipment_params"}

\* C23: from_dict changes the dict it is given: after the call the keys
\* dispatch_options, metadata and equipment_params are gone from it and
\* the defaulted and migrated keys are in it; a second from_dict on the
\* same dict, which was a to_dict() output, returns no Scenario but fails
\* with KeyError (builder_type is looked up in the empty dispatch options).
C23_FromDictConsumesDict ==
    /\ (spc \in {"loaded", "reloaded"} /\ edit \in {"none"} \cup TariffFields \cup NestEdits) =>
           /\ DOMAIN doc \cap PoppedKeys = {}
           /\ (EquipmentFields \cup TariffFields) \subseteq DOMAIN doc
    /\ (spc = "reloaded" /\ edit = "none") =>
           /\ loaded.err = "KeyError"
           /\ loaded.scenario = NoneObject
           /\ FromDictOptions(doc) = EmptyDict

\* C23 witness: a to_dict() output was loaded twice from the same dict and
\* the second call failed.
C23_Witness ==
    /\ spc = "reloaded" /\ edit = "none"
    /\ obj.builder_type = "BuilderType.OTHER"
    /\ loaded.err = "KeyError"
    /\ "dispatch_options" \notin DOMAIN doc

\* The exception from_dict raises for each of the documents of OptionEdits.
OptionError(e) == IF e \in { "options:bad:" \o f : f \in EnumFields } THEN "ValueError"
                  ELSE "KeyError"

\* C24: from_dict raises on a document without dispatch_options, with
\* dispatch_options lacking builder_type, solver or dispatch_type (KeyError)
\* or holding a string that is no member value (ValueError); a document
\* without metadata loads with results_path None and the time of the load
\* as created_at; a file in which one record fails to load makes the
\* construction of the manager fail with no scenario loaded.
C24_OptionsNotDefaulted ==
    /\ []((spc = "loaded" /\ edit \in OptionEdits) =>
             /\ loaded.err = OptionError(edit)
             /\ loaded.scenario = NoneObject)
    /\ []((spc = "loaded" /\ edit = "metadata:none") =>
             /\ loaded.err = NoError
             /\ loaded.scenario.results_path = None
             /\ \A f \in AllFields \ MetaFields : loaded.scenario[f] = obj[f])
    /\ [][(spc = "dumped" /\ spc' = "loaded" /\ edit = "metadata:none") =>
             loaded'.scenario.created_at = Strftime(clock)]_vars
    /\ []((spc = "stored" /\ edit \in OptionEdits) =>
             /\ loaded.err = OptionError(edit)
             /\ loaded.scenarios = EmptyDict)
    /\ []((spc = "stored" /\ edit = "metadata:none") =>
             /\ loaded.err = NoError
             /\ DOMAIN loaded.scenarios = {"other", "this"})

\* C24 witness: a manager was constructed on a file whose second record
\* holds a solver string that is no member value; the construction failed
\* with ValueError and holds nothing.
C24_Witness ==
    /\ spc = "stored" /\ edit = "options:bad:solver"
    /\ loaded.err = "ValueError"
    /\ loaded.scenarios = EmptyDict
    /\ doc.dispatch_options.solver = NotAMember

(***************************************************************************)
(* Specification of the ScenarioManager: a store that is absent, current   *)
(* or written by an older version; one manager constructed on it; calls    *)
(* on that manager; a second manager constructed later on the same file.   *)
(***************************************************************************)
StoredAt == "2024-06-01 12:00:00"

\* A record as save_scenarios writes it today.
CurrentRecord ==
    JsonEncodeDoc(to_dict(Scenario(Update(BaseArgs("A"), [created_at |-> StoredAt]), 0)))

\* A record written before gas_grid_cost_energy and the metadata block existed.
LegacyRecord == Without(CurrentRecord, {"gas_grid_cost_energy", "metadata"})

InitialStores == { [fileState |-> "absent", file |-> EmptyDict],
                   [fileState |-> "json", file |-> [A |-> CurrentRecord]],
                   [fileState |-> "json", file |-> [A |-> LegacyRecord]] }

\* ScenarioManager() (lines 153-156) at time 0 on one of the stores.
InitStore ==
    /\ \E st \in InitialStores :
          /\ fileState = st.fileState
          /\ file = st.file
          /\ mgr = load_scenarios(st.fileState, st.file, 0).scenarios
    /\ fresh = NotCalled
    /\ ret = NotCalled
    /\ last = [n |-> 0, op |-> "none", key |-> "", kw |-> {}, err |-> NoError, wrote |-> FALSE]
    /\ allNormal = TRUE
    /\ wroteOnce = FALSE

NewResultsPath == "results/A/results_20250101_000001"

\* Keyword arguments of update_scenario: the results path run_scenario
\* records, a new name, a solver given as its string instead of the member,
\* and a keyword that is not a field of Scenario.
UpdateKwargs == { [results_path |-> NewResultsPath], [name |-> "B"], [solver |-> "cbc"],
                  [note |-> "checked"] }

AddArgs == { BaseArgs(n) : n \in ScenarioNames }

\* Bookkeeping common to the three mutating calls.
CalledWith(op, key, kw, err, wrote) ==
    /\ last.n < MaxCalls
    /\ last.op # "crash"
    /\ last' = [n |-> last.n + 1, op |-> op, key |-> key, kw |-> DOMAIN kw,
                err |-> err, wrote |-> wrote]
    /\ allNormal' = (allNormal /\ err = NoError)
    /\ wroteOnce' = (wroteOnce \/ wrote)

Called(op, key, err, wrote) == CalledWith(op, key, EmptyDict, err, wrote)

\* An update_scenario whose first parameter has another name, so that
\* name=... is one more attribute to set.
UpdateScenarioRenaming ==
    \E name \in ScenarioNames, kw \in UpdateKwargs :
        IF name \in DOMAIN mgr
        THEN LET scenarios == [mgr EXCEPT ![name] = SetAttrs(mgr[name], kw)]
                 saved == save_scenarios(scenarios, fileState, file)
             IN  /\ mgr' = scenarios
                 /\ fileState' = saved.fileState
                 /\ file' = saved.file
                 /\ CalledWith("update", name, kw, saved.err, saved.err = NoError)
                 /\ fresh' = NotCalled
                 /\ UNCHANGED <<clock, ret, notStore>>
        ELSE /\ CalledWith("update", name, kw, NoError, FALSE)
             /\ fresh' = NotCalled
             /\ UNCHANGED <<clock, ret, mgr, fileState, file, notStore>>

\* add_scenario (lines 174-177)
AddScenario ==
    \E kw \in AddArgs :
        LET scenario == Scenario(kw, clock)
            scenarios == Update(mgr, [k \in {scenario.name} |-> scenario])
            saved == save_scenarios(scenarios, fileState, file)
        IN  /\ mgr' = scenarios
            /\ fileState' = saved.fileState
            /\ file' = saved.file
            /\ Called("add", scenario.name, saved.err, saved.err = NoError)
            /\ fresh' = NotCalled
            /\ UNCHANGED <<clock, ret, notStore>>

\* update_scenario (lines 187-193). The first parameter is called name, so
\* a keyword name=... collides with it: the call raises TypeError before the
\* body runs.
UpdateScenario ==
    \E name \in ScenarioNames, kw \in UpdateKwargs :
        IF "name" \in DOMAIN kw
        THEN /\ CalledWith("update", name, kw, "TypeError", FALSE)
             /\ fresh' = NotCalled
             /\ UNCHANGED <<clock, ret, mgr, fileState, file, notStore>>
        ELSE IF name \in DOMAIN mgr
        THEN LET scenarios == [mgr EXCEPT ![name] = SetAttrs(mgr[name], kw)]
                 saved == save_scenarios(scenarios, fileState, file)
             IN  /\ mgr' = scenarios
                 /\ fileState' = saved.fileState
                 /\ file' = saved.file
                 /\ CalledWith("update", name, kw, saved.err, saved.err = NoError)
                 /\ fresh' = NotCalled
                 /\ UNCHANGED <<clock, ret, notStore>>
        ELSE /\ CalledWith("update", name, kw, NoError, FALSE)
             /\ fresh' = NotCalled
             /\ UNCHANGED <<clock, ret, mgr, fileState, file, notStore>>

\* delete_scenario (lines 195-199)
DeleteScenario ==
    \E name \in ScenarioNames :
        IF name \in DOMAIN mgr
        THEN LET scenarios == Without(mgr, {name})
                 saved == save_scenarios(scenarios, fileState, file)
             IN  /\ mgr' = scenarios
                 /\ fileState' = saved.fileState
                 /\ file' = saved.file
                 /\ Called("delete", name, saved.err, saved.err = NoError)
                 /\ fresh' = NotCalled
                 /\ UNCHANGED <<clock, ret, notStore>>
        ELSE /\ Called("delete", name, NoError, FALSE)
             /\ fresh' = NotCalled
             /\ UNCHANGED <<clock, ret, mgr, fileState, file, notStore>>

\* The collections a mutating call would save: add_scenario of a new or a
\* present name, update_scenario and delete_scenario of a present name.
Mutations ==
    { [op |-> "add", key |-> kw.name,
       scenarios |-> Update(mgr, [k \in {kw.name} |-> Scenario(kw, clock)])] : kw \in AddArgs }
    \cup { [op |-> "update", key |-> name,
            scenarios |-> [mgr EXCEPT ![name] = SetAttrs(mgr[name], [results_path |-> NewResultsPath])]] :
            name \in DOMAIN mgr }
    \cup { [op |-> "delete", key |-> name, scenarios |-> Without(mgr, {name})] :
            name \in DOMAIN mgr }

\* The process dies inside save_scenarios of a mutating call, after the
\* open of line 171 and before json.dump of line 172 has written the whole
\* text. The manager is gone with the process; mgr keeps the collection
\* the call was saving.
CrashInSave ==
    /\ last.n < MaxCalls
    /\ last.op # "crash"
    /\ \E m \in Mutations :
          /\ \A k \in DOMAIN m.scenarios : to_dict_ok(m.scenarios[k])
          /\ LET after == StoreDocument(m.scenarios, file)
             IN  \E K \in SUBSET DOMAIN after :
                    LET opened == OpenForWriting(fileState, file, [k \in K |-> after[k]])
                    IN  /\ mgr' = m.scenarios
                        /\ fileState' = opened.fileState
                        /\ file' = opened.file
                        /\ last' = [n |-> last.n + 1, op |-> "crash", key |-> m.key, kw |-> {},
                                    err |-> "crash", wrote |-> FALSE]
    /\ allNormal' = FALSE
    /\ fresh' = NotCalled
    /\ UNCHANGED <<clock, ret, wroteOnce, notStore>>

\* get_scenario (lines 179-181)
GetScenario ==
    \E name \in ScenarioNames :
        LET got == get_scenario(mgr, name)
        IN  /\ ret' = got.value
            /\ Called("get", name, got.err, FALSE)
            /\ UNCHANGED <<clock, mgr, fileState, file, fresh, notStore>>

\* ScenarioManager() on the same file, after the calls made so far.
NewManager ==
    /\ fresh = NotCalled
    /\ fresh' = load_scenarios(fileState, file, clock)
    /\ UNCHANGED <<clock, mgr, fileState, file, ret, last, allNormal, wroteOnce, notStore>>

NextStore == \/ AddScenario
             \/ UpdateScenario
             \/ DeleteScenario
             \/ GetScenario
             \/ CrashInSave
             \/ NewManager
             \/ (Tick /\ UNCHANGED notClock)

StartStore == InitStore /\ IdleScenario /\ IdleBatch /\ IdleGraph /\ IdleAnalysis /\ IdleData /\ IdleShared /\ clock = 0
SpecStore == StartStore /\ [][NextStore]_vars

(***************************************************************************)
(* Claims on the ScenarioManager                                           *)
(***************************************************************************)
Mutators == {"add", "update", "delete"}

\* The store holds one record per in-memory scenario, each its to_dict()
\* (an absent file holds no record).
StoreMatchesMemory ==
    /\ DOMAIN file = DOMAIN mgr
    /\ \A k \in DOMAIN mgr : /\ to_dict_ok(mgr[k])
                             /\ file[k] = JsonEncodeDoc(to_dict(mgr[k]))

\* C3 as stated: after any add, update or delete call, all calls so far
\* having returned normally, the store holds exactly the in-memory collection.
C3_StoreAfterAnyCall ==
    (last.op \in Mutators /\ allNormal) => StoreMatchesMemory

\* C3 amended: once a call has rewritten the store (an add, or an update or
\* delete of a key that is present) and all calls have returned normally,
\* the store holds exactly one record per in-memory scenario, each equal to
\* its to_dict(); no record of a deleted scenario remains.
C3_StoreAfterRewrite ==
    (allNormal /\ wroteOnce) => StoreMatchesMemory

\* C3 witness: a delete has just rewritten a store that held two records.
C3_Witness ==
    /\ last.op = "delete" /\ last.wrote /\ allNormal
    /\ last.n = 2
    /\ DOMAIN mgr = {"A"}
    /\ DOMAIN file = {"A"}

\* The second manager holds the keys and the field values of the first.
FreshEqualsMemory ==
    /\ fresh.err = NoError
    /\ DOMAIN fresh.scenarios = DOMAIN mgr
    /\ \A k \in DOMAIN mgr : \A f \in AllFields : fresh.scenarios[k][f] = mgr[k][f]

StoredCreatedAt ==
    \A k \in DOMAIN file : /\ "metadata" \in DOMAIN file[k]
                           /\ "created_at" \in DOMAIN file[k].metadata
                           /\ file[k].metadata.created_at # JsonNull

C5_GetScenario ==
    [][(last'.n = last.n + 1 /\ last'.op = "get") =>
          /\ last'.err = NoError
          /\ mgr' = mgr /\ file' = file /\ fileState' = fileState
          /\ ret' = (IF last'.key \in DOMAIN mgr THEN mgr[last'.key] ELSE NoneObject)]_vars

\* C5 witness: a lookup of an absent key returned None while another key
\* is present.
C5_Witness ==
    /\ last.op = "get" /\ last.key \notin DOMAIN mgr
    /\ ret = NoneObject
    /\ mgr # EmptyDict

\* C17: the store rewrite is not crash-atomic. A crash after the open of
\* save_scenarios and before the end of its write leaves a store that is
\* neither the store before the mutation nor the store the mutation would
\* have written, and every ScenarioManager constructed on it afterwards
\* fails or holds fewer scenarios than the collection that was being saved.
C17_NotCrashAtomic ==
    /\ [](last.op = "crash" =>
            (fresh # NotCalled =>
                \/ fresh.err # NoError
                \/ Cardinality(DOMAIN fresh.scenarios) < Cardinality(DOMAIN mgr)))
    /\ [][(last.op # "crash" /\ last'.op = "crash") =>
             LET after == save_scenarios(mgr', fileState, file)
             IN  /\ <<fileState', file'>> # <<fileState, file>>
                 /\ <<fileState', file'>> # <<after.fileState, after.file>>]_vars

\* C17 witness: the process died while add_scenario was saving a second
\* scenario; the first record is whole in the file, and the manager
\* constructed afterwards failed in json.load.
C17_Witness ==
    /\ last.op = "crash" /\ last.key = "B"
    /\ DOMAIN mgr = {"A", "B"}
    /\ fileState = "torn" /\ DOMAIN file = {"A"}
    /\ fresh # NotCalled /\ fresh.err = "JSONDecodeError"

\* An update_scenario call that was given the keyword name.
RenameCall(l) == l.op = "update" /\ "name" \in l.kw

\* C25 as stated: update_scenario(name, name=other) on a present key returns
\* normally and changes the record's name field, leaving it under the old key.
C25_RenameKeepsKey ==
    (RenameCall(last) /\ last.key \in DOMAIN mgr) =>
        /\ last.err = NoError
        /\ mgr[last.key].name = "B"

\* C25 amended: after any sequence of add_scenario, update_scenario and
\* delete_scenario calls every key of the collection, in memory, in the
\* store and in a manager loaded from the store, equals the name field of
\* its record; update_scenario(name, name=other) raises TypeError and
\* changes neither the collection nor the store.
C25_KeyNameAgreement ==
    /\ [](/\ \A k \in DOMAIN mgr : mgr[k].name = k
          /\ \A k \in DOMAIN file : file[k].name = k
          /\ (fresh # NotCalled /\ fresh.err = NoError) =>
                \A k \in DOMAIN fresh.scenarios : fresh.scenarios[k].name = k)
    /\ [][(last'.n = last.n + 1 /\ RenameCall(last')) =>
             /\ last'.err = "TypeError"
             /\ mgr' = mgr /\ file' = file /\ fileState' = fileState]_vars

\* C25 witness: update_scenario("A", name="B") was called on a manager whose
\* scenario A carries a results path from an earlier update; A is still
\* named A and no key B exists.
C25_Witness ==
    /\ RenameCall(last) /\ last.key = "A" /\ last.err = "TypeError"
    /\ DOMAIN mgr = {"A"} /\ mgr["A"].name = "A"
    /\ mgr["A"].results_path = NewResultsPath
    /\ DOMAIN file = {"A"} /\ file["A"].name = "A"

\* The keywords of the update_scenario call l records.
KwargsOf(l) == CHOOSE kw \in UpdateKwargs : DOMAIN kw = l.kw

\* The keys of a stored record, the nested ones included.
StoredKeys(d) ==
    DOMAIN d \cup UNION { DOMAIN d[b] : b \in {"dispatch_options", "metadata"} \cap DOMAIN d }

PeerResultsPath == "results/A/results_20250101_000002"

notShared == <<clock, varsScenario, varsBatch, varsGraph, varsAnalysis, varsData>>

\* ScenarioManager() (lines 153-156) of the peer: the only time it reads
\* the file. opened keeps the file as it was read.
PeerOpen ==
    /\ peer = NotCalled
    /\ LET r == load_scenarios(fileState, file, clock)
       IN  peer' = [err |-> r.err, scenarios |-> r.scenarios, wrote |-> FALSE, key |-> "",
                    opened |-> [fileState |-> fileState, file |-> file]]
    /\ UNCHANGED <<varsStore, notShared>>

\* update_scenario(name, results_path=...) (lines 187-193) through the peer,
\* at any later moment: the setattr on the peer's cache and the save from it.
PeerUpdate ==
    /\ peer # NotCalled
    /\ peer.err = NoError
    /\ ~peer.wrote
    /\ \E name \in DOMAIN peer.scenarios :
          LET scenarios == [peer.scenarios EXCEPT
                               ![name] = SetAttrs(@, [results_path |-> PeerResultsPath])]
              saved == save_scenarios(scenarios, fileState, file)
          IN  /\ peer' = [peer EXCEPT !.scenarios = scenarios, !.wrote = TRUE, !.key = name,
                                      !.err = saved.err]
              /\ fileState' = saved.fileState
              /\ file' = saved.file
    /\ UNCHANGED <<mgr, fresh, ret, last, allNormal, wroteOnce, notShared>>

NextShared == \/ AddScenario
              \/ UpdateScenario
              \/ DeleteScenario
              \/ PeerOpen
              \/ PeerUpdate

SpecShared == StartStore /\ [][NextShared]_vars

\* metadata.results_path of a stored record; a record without the metadata
\* block has none.
StoredResultsPath(d) ==
    IF "metadata" \in DOMAIN d /\ "results_path" \in DOMAIN d.metadata
    THEN d.metadata.results_path ELSE JsonNull

C27_SequentialWitness ==
    /\ peer # NotCalled /\ peer.wrote /\ peer.key = "B"
    /\ DOMAIN file = {"A", "B"}
    /\ StoredResultsPath(file["A"]) = NewResultsPath
    /\ StoredResultsPath(file["B"]) = PeerResultsPath

(***************************************************************************)
(* define_scenarios.py: one Scenario per spreadsheet row, added to a       *)
(* manager constructed at the start of the script                          *)
(***************************************************************************)
\* The keyword arguments lines 18-62 build from one row: the required
\* fields only.
RowArgs(name) == [BaseArgs(name) EXCEPT !.description = "row " \o name]

\* The Name column of Scenarios.xlsx, row by row.
NameColumns == { <<>>, <<"A">>, <<"B">>, <<"A", "B">>, <<"B", "A">>, <<"A", "A">> }

RowNames(rows) == { rows[i] : i \in 1..Len(rows) }

\* A loop that carries the metadata of a record it replaces over to the
\* new one.
add_row_keeping_metadata(scenarios, name, now) ==
    LET made == Scenario(RowArgs(name), now)
    IN  Update(scenarios, [k \in {name} |->
            IF name \in DOMAIN scenarios
            THEN [made EXCEPT !.created_at = scenarios[name].created_at,
                              !.results_path = scenarios[name].results_path]
            ELSE made])

\* Lines 18-63 for one row: Scenario(...) and self.scenarios[name] = scenario.
add_row(scenarios, name, now) ==
    Update(scenarios, [k \in {name} |-> Scenario(RowArgs(name), now)])

\* The loop of lines 17-63 over the rows.
RECURSIVE add_rows(_, _, _)
add_rows(scenarios, rows, now) ==
    IF rows = <<>> THEN scenarios
    ELSE add_rows(add_row(scenarios, Head(rows), now), Tail(rows), now)

\* define_scenarios() (lines 8-70): a manager loaded from the store, one
\* add_scenario per row, each with its save; with no row nothing is saved.
\* mgr is the manager the script returns.
DefineScenarios ==
    \E manager \in {load_scenarios(fileState, file, clock)}, rows \in NameColumns :
      \E scenarios \in {add_rows(manager.scenarios, rows, clock)} :
        \E saved \in {IF rows = <<>>
                       THEN [err |-> NoError, fileState |-> fileState, file |-> file]
                       ELSE save_scenarios(scenarios, fileState, file)} :
            /\ manager.err = NoError
            /\ mgr' = scenarios
            /\ fileState' = saved.fileState
            /\ file' = saved.file
            /\ CalledWith("define", "", [n \in RowNames(rows) |-> n], saved.err, rows # <<>>)
            /\ fresh' = NotCalled
            /\ UNCHANGED <<clock, ret, notStore>>

NextDefine == \/ DefineScenarios
              \/ AddScenario
              \/ UpdateScenario
              \/ (Tick /\ UNCHANGED notClock)

SpecDefine == StartStore /\ [][NextDefine]_vars

\* The record a re-run stores for a row: the row's values, no results
\* path, created at the time of the re-run.
RowRecord(name, now) == JsonEncodeDoc(to_dict(Scenario(RowArgs(name), now)))

\* add_scenario of a name the manager holds replaces that record and keeps
\* the number of scenarios; it raises nothing when every scenario in
\* memory can be serialised.
AddReplaces ==
    [][(last'.n = last.n + 1 /\ last'.op = "add" /\ last'.key \in DOMAIN mgr) =>
         /\ DOMAIN mgr' = DOMAIN mgr
         /\ mgr'[last'.key] = Scenario(BaseArgs(last'.key), clock)
         /\ (\A k \in DOMAIN mgr' : to_dict_ok(mgr'[k])) =>
                /\ last'.err = NoError
                /\ DOMAIN file' = DOMAIN mgr
                /\ file'[last'.key] = JsonEncodeDoc(to_dict(mgr'[last'.key]))]_vars

\* A re-run of define_scenarios stores a fresh record for every row.
DefineReplacesRows ==
    [][(last'.n = last.n + 1 /\ last'.op = "define") =>
         /\ last'.err = NoError
         /\ \A k \in last'.kw : /\ k \in DOMAIN file'
                                 /\ file'[k] = RowRecord(k, clock)
                                 /\ StoredResultsPath(file'[k]) = JsonNull]_vars

CurrentFormat(d) ==
    /\ DOMAIN d = DOMAIN CurrentRecord
    /\ d.metadata.created_at # JsonNull

BatchNames == {"A", "B", "C"}

\* datetime.now().strftime("%Y%m%d_%H%M%S") (line 194)
Stamp(t) == "20250101_00000" \o ToString(t)

\* os.path.join("results", scenario.name, "results_<timestamp>") (lines 195-199)
ResultsPath(name, t) == "results/" \o name \o "/results_" \o Stamp(t)

StoredRecord(n) ==
    JsonEncodeDoc(to_dict(Scenario(Update(BaseArgs(n), [created_at |-> StoredAt]), 0)))

\* The orders in which a dict with the keys S can be iterated.
Orders(S) == { s \in [1..Cardinality(S) -> S] : \A i, j \in 1..Cardinality(S) : s[i] = s[j] => i = j }

\* The batch starts on an absent store or on a store of up to three records.
InitBatch ==
    /\ \E S \in SUBSET BatchNames :
          /\ file = [n \in S |-> StoredRecord(n)]
          /\ fileState \in (IF S = {} THEN {"absent", "json"} ELSE {"json"})
    /\ mgr = EmptyDict
    /\ fresh = NotCalled
    /\ ret = NotCalled
    /\ last = [n |-> 0, op |-> "none", key |-> "", kw |-> {}, err |-> NoError, wrote |-> FALSE]
    /\ allNormal = TRUE
    /\ wroteOnce = FALSE
    /\ IdleBatch

\* A handler that gives up on the batch after the first failure.
stop_after_exception(i) == Len(batch) + 1

\* The except clause ends and the for loop takes the next name (lines 232-235).
continue_after_exception(i) == i + 1

\* successful_count (line 242)
successful_count(scenarios, failed_scenarios) == Len(scenarios) - Len(failed_scenarios)

\* run_all_scenarios, lines 217-225: the driver's manager, the names, the
\* early return on an empty store.
BatchStart ==
    /\ bpc = "start"
    /\ LET got == load_scenarios(fileState, file, clock)
       IN  /\ got.err = NoError
           /\ mgr' = got.scenarios
           /\ \E order \in Orders(DOMAIN got.scenarios) : batch' = order
           /\ IF got.scenarios = EmptyDict
              THEN bpc' = "done" /\ idx' = 0
              ELSE bpc' = "loop" /\ idx' = 1
    /\ UNCHANGED <<clock, fileState, file, fresh, ret, last, allNormal, wroteOnce, notBatch,
                   rpc, runMgr, runPath, output, failed, summary, attempts, raisedAt, artifacts, before>>

\* line 230: run_scenario(name) is called.
RunCall ==
    /\ bpc = "loop" /\ idx <= Len(batch) /\ rpc = "idle"
    /\ attempts' = Append(attempts, batch[idx])
    /\ before' = [fileState |-> fileState, file |-> file]
    /\ rpc' = "load"
    /\ UNCHANGED <<clock, notBatch, varsStore, batch, idx, bpc, runMgr, runPath,
                   output, failed, summary, raisedAt, artifacts>>

\* A run that works on the manager of its caller instead of its own.
RunManagerShared(driver, state, text, now) == [err |-> NoError, scenarios |-> driver]

\* line 20: manager = ScenarioManager(), a manager of its own that the run
\* loads from the file, whatever manager the caller holds.
RunManager(driver, state, text, now) == load_scenarios(state, text, now)

\* A run that goes on whatever the lookup returned.
AfterLookupUnchecked(scenario) == "data"

\* lines 23-25: `if scenario is None` prints and returns; otherwise the run
\* goes on to get_data.
AfterLookup(scenario) == IF scenario = NoneObject THEN "returned" ELSE "data"

\* run_scenario, lines 20-25: its own manager, the lookup, the early return.
RunLoad ==
    /\ rpc = "load"
    /\ LET got == RunManager(mgr, fileState, file, clock)
           scenario == get_scenario(got.scenarios, batch[idx]).value
       IN  /\ got.err = NoError
           /\ runMgr' = got.scenarios
           /\ rpc' = AfterLookup(scenario)
    /\ UNCHANGED <<clock, notBatch, varsStore, batch, idx, bpc, runPath,
                   output, failed, summary, attempts, raisedAt, artifacts, before>>

\* lines 32-39: get_data returned.
RunData ==
    /\ rpc = "data"
    /\ rpc' = "dispatch"
    /\ UNCHANGED <<clock, notBatch, varsStore, batch, idx, bpc, runMgr, runPath,
                   output, failed, summary, attempts, raisedAt, artifacts, before>>

\* A run that records in the store that results are on their way as soon
\* as dispatch has returned.
StoreAfterDispatchMarked(scenarios, name, state, text) ==
    LET marked == [scenarios EXCEPT ![name] = SetAttrs(scenarios[name], [results_path |-> "pending"])]
    IN  [fileState |-> "json", file |-> StoreDocument(marked, text)]

\* lines 46-188 make no call on the manager and open no file of their own:
\* the store is after dispatch what it was before.
StoreAfterDispatch(scenarios, name, state, text) == [fileState |-> state, file |-> text]

\* lines 46-188: the derived columns, get_model, the parameters, dispatch returned.
RunDispatch ==
    /\ rpc = "dispatch"
    /\ LET store == StoreAfterDispatch(runMgr, batch[idx], fileState, file)
       IN  /\ fileState' = store.fileState
           /\ file' = store.file
    /\ rpc' = "save"
    /\ UNCHANGED <<clock, notBatch, mgr, fresh, ret, last, allNormal, wroteOnce,
                   batch, idx, bpc, runMgr, runPath,
                   output, failed, summary, attempts, raisedAt, artifacts, before>>

\* lines 194-206: the timestamp, the results path, save_results returned.
RunSave ==
    /\ rpc = "save"
    /\ runPath' = ResultsPath(runMgr[batch[idx]].name, clock)
    /\ artifacts' = artifacts \cup {runPath'}
    /\ rpc' = "update"
    /\ UNCHANGED <<clock, notBatch, varsStore, batch, idx, bpc, runMgr,
                   output, failed, summary, attempts, raisedAt, before>>

\* line 209: manager.update_scenario(scenario.name, results_path=results_path)
RunUpdate ==
    /\ rpc = "update"
    /\ LET name == runMgr[batch[idx]].name
       IN  IF name \in DOMAIN runMgr
           THEN LET scenarios == [runMgr EXCEPT ![name] = SetAttrs(runMgr[name], [results_path |-> runPath])]
                    saved == save_scenarios(scenarios, fileState, file)
                IN  /\ saved.err = NoError
                    /\ runMgr' = scenarios
                    /\ fileState' = saved.fileState
                    /\ file' = saved.file
           ELSE UNCHANGED <<runMgr, fileState, file>>
    /\ rpc' = "returned"
    /\ UNCHANGED <<clock, notBatch, mgr, fresh, ret, last, allNormal, wroteOnce,
                   batch, idx, bpc, runPath, output, failed, summary, attempts, raisedAt, artifacts, before>>

\* An exception leaves run_scenario: from get_data, the binding and
\* dispatch, or save_results (the stores of this specification load
\* without error, so the construction of the manager does not raise).
RunRaise ==
    /\ rpc \in {"data", "dispatch", "save"}
    /\ rpc' = "raised"
    /\ raisedAt' = raisedAt \cup {idx}
    /\ UNCHANGED <<clock, notBatch, varsStore, batch, idx, bpc, runMgr, runPath,
                   output, failed, summary, attempts, artifacts, before>>

\* line 231: the success line, then the next name.
DriverSuccess ==
    /\ bpc = "loop" /\ rpc = "returned"
    /\ output' = Append(output, [name |-> batch[idx], line |-> "completed successfully"])
    /\ idx' = idx + 1
    /\ rpc' = "idle"
    /\ UNCHANGED <<clock, notBatch, varsStore, batch, bpc, runMgr, runPath,
                   failed, summary, attempts, raisedAt, artifacts, before>>

\* lines 232-235: the failure line, the entry in failed_scenarios, then the next name.
DriverFailure ==
    /\ bpc = "loop" /\ rpc = "raised"
    /\ output' = Append(output, [name |-> batch[idx], line |-> "failed"])
    /\ failed' = Append(failed, batch[idx])
    /\ idx' = continue_after_exception(idx)
    /\ rpc' = "idle"
    /\ UNCHANGED <<clock, notBatch, varsStore, batch, bpc, runMgr, runPath,
                   summary, attempts, raisedAt, artifacts, before>>

\* lines 237-250: the summary.
BatchSummary ==
    /\ bpc = "loop" /\ idx > Len(batch) /\ rpc = "idle"
    /\ summary' = successful_count(batch, failed)
    /\ bpc' = "done"
    /\ UNCHANGED <<clock, notBatch, varsStore, batch, idx, rpc, runMgr, runPath,
                   output, failed, attempts, raisedAt, artifacts, before>>

\* lines 253-278: `--scenario NAME` calls run_scenario(NAME) directly, for
\* any name, in the store or not.
DirectCall ==
    /\ bpc = "start"
    /\ \E name \in BatchNames : batch' = <<name>>
    /\ idx' = 1
    /\ attempts' = <<batch'[1]>>
    /\ bpc' = "direct"
    /\ before' = [fileState |-> fileState, file |-> file]
    /\ rpc' = "load"
    /\ UNCHANGED <<clock, notBatch, varsStore, runMgr, runPath,
                   output, failed, summary, raisedAt, artifacts>>

\* The direct call has returned or raised and the program ends.
DirectExit ==
    /\ bpc = "direct" /\ rpc \in {"returned", "raised"}
    /\ bpc' = "exit"
    /\ UNCHANGED <<clock, notBatch, varsStore, batch, idx, rpc, runMgr, runPath,
                   output, failed, summary, attempts, raisedAt, artifacts, before>>

NextBatch == \/ BatchStart
             \/ DirectCall
             \/ DirectExit
             \/ RunCall
             \/ RunLoad
             \/ RunData
             \/ RunDispatch
             \/ RunSave
             \/ RunUpdate
             \/ RunRaise
             \/ DriverSuccess
             \/ DriverFailure
             \/ BatchSummary
             \/ (Tick /\ UNCHANGED notClock)

StartBatch == InitBatch /\ IdleScenario /\ IdleGraph /\ IdleAnalysis /\ IdleData /\ IdleShared /\ clock = 0
SpecBatch == StartBatch /\ [][NextBatch]_vars

(***************************************************************************)
(* Claims on the batch driver                                              *)
(***************************************************************************)

\* C6: when run_all_scenarios ends on a store of N scenarios, run_scenario
\* has been called exactly once per scenario in store order, each scenario
\* has one line (failure exactly for those that raised), and the summary
\* count is N minus the number of scenarios that raised.
C6_FaultIsolation ==
    (bpc = "done" /\ batch # <<>>) =>
        /\ attempts = batch
        /\ Len(output) = Len(batch)
        /\ \A i \in 1..Len(batch) :
              /\ output[i].name = batch[i]
              /\ output[i].line = (IF i \in raisedAt THEN "failed" ELSE "completed successfully")
        /\ summary = Len(batch) - Cardinality(raisedAt)

\* C6 witness: a batch of three ended; the first and the last scenario
\* raised, the second one ran to its end in between.
C6_Witness ==
    /\ bpc = "done" /\ Len(batch) = 3
    /\ raisedAt = {1, 3}
    /\ output[2].line = "completed successfully"
    /\ summary = 1

\* The runs of the batch that have come back to the driver without raising.
Completed == { i \in 1..Len(batch) : /\ bpc \in {"loop", "done"}
                                     /\ i \notin raisedAt
                                     /\ (i < idx \/ (i = idx /\ rpc = "returned")) }

\* The results directories written for one scenario name.
ArtifactsOf(name) == artifacts \cap { ResultsPath(name, t) : t \in 0..MaxClock }

\* The store holds, for the scenario, the directory its run has written.
PathPersisted(name) ==
    /\ name \in DOMAIN file
    /\ file[name].metadata.results_path \in ArtifactsOf(name)

\* C14: during and after run_all_scenarios every scenario whose run has
\* completed has, in the persisted store, the results path
\* results/<name>/results_<timestamp of its run>, and keeps it through the
\* later runs of the batch; the store is written only in the last step of a
\* run, after dispatch and save_results have returned.
C14_ResultsAssociation ==
    /\ [](\A i \in Completed : PathPersisted(batch[i]))
    /\ [][(file' # file \/ fileState' # fileState) =>
              /\ rpc = "update" /\ rpc' = "returned"
              /\ runPath \in artifacts]_vars

\* C14 witness: a batch of three has ended; the first scenario completed at
\* time 0, the second raised, the third completed at a later time, and the
\* store holds both paths.
C14_Witness ==
    /\ bpc = "done" /\ Len(batch) = 3
    /\ raisedAt = {2}
    /\ file[batch[1]].metadata.results_path = ResultsPath(batch[1], 0)
    /\ file[batch[3]].metadata.results_path = ResultsPath(batch[3], 1)
    /\ file[batch[2]].metadata.results_path = JsonNull

\* run_scenario was called directly with a name the store does not hold.
DirectAbsent == bpc \in {"direct", "exit"} /\ batch[1] \notin DOMAIN file

\* C15: run_scenario for a name that is not in the store returns without
\* raising and performs no data generation, binding, dispatch, results
\* write or store write: the run goes from the lookup straight to its
\* return, no results directory appears and the store stays as it was,
\* an absent file included.
C15_UnknownScenario ==
    /\ [](DirectAbsent => /\ rpc \in {"load", "returned"}
                          /\ raisedAt = {}
                          /\ artifacts = {})
    /\ [][DirectAbsent => /\ file' = file /\ fileState' = fileState
                          /\ artifacts' = artifacts]_vars

\* C15 witness: the direct run of "C" has returned on a store that holds
\* "A" and "B" only.
C15_Witness ==
    /\ bpc = "exit" /\ batch = <<"C">>
    /\ rpc = "returned"
    /\ DOMAIN file = {"A", "B"}
    /\ runMgr # EmptyDict

Numbered(prefix, n) == { prefix \o ToString(k) : k \in 0..(n - 1) }

CHPPorts == {"gas_in", "electricity_output", "thermal_output", "is_starting_up", "is_on",
             "is_shutting_down", "is_off", "gas_to_turbine", "gas_to_aux_firing",
             "min_electricity_output", "max_electricity_output",
             "min_electrical_efficiency", "max_electrical_efficiency",
             "thermal_efficiency", "aux_firing_efficiency"}

PortsOf(type, n) ==
    CASE type = "Conversion" -> {"input", "output"}
      [] type = "Splitter" -> {"input"} \cup Numbered("output", n)
      [] type = "Summation" -> Numbered("input", n) \cup {"output"}
      [] type = "Market" -> {"quantities", "prices"}
      [] type = "PeakMarket" -> {"quantities", "prices", "base quantities"}
      [] type = "Demand" -> {"supply", "demand"}
      [] type = "Storage" -> {"charge", "discharge"}
      [] type = "CHP" -> CHPPorts

Component(id, name, type, n) == [id |-> id, name |-> name, type |-> type, n |-> n]
Connect(srcId, srcPort, dstId, dstPort) ==
    [op |-> "connect", src |-> <<srcId, srcPort>>, dst |-> <<dstId, dstPort>>]

\* add: DuplicateNameError when the name is registered already.
model_add(comps, c) ==
    IF c.name \in DOMAIN comps THEN [err |-> "DuplicateNameError", components |-> comps]
    ELSE [err |-> NoError, components |-> Update(comps, [k \in {c.name} |-> c.id])]

Registered(comps) == { comps[k] : k \in DOMAIN comps }

\* connect: UnboundPortError when a port's component was not added,
\* MultipleWriterError when the destination has an incoming connection.
model_connect(comps, conns, src, dst) ==
    IF src[1] \notin Registered(comps) \/ dst[1] \notin Registered(comps)
    THEN [err |-> "UnboundPortError", connections |-> conns]
    ELSE IF \E c \in conns : c.dst = dst
    THEN [err |-> "MultipleWriterError", connections |-> conns]
    ELSE [err |-> NoError, connections |-> conns \cup {[src |-> src, dst |-> dst]}]

\* get_component: NotFoundError for a name that was not added.
get_component(comps, name) ==
    IF name \in DOMAIN comps THEN [err |-> NoError, id |-> comps[name]]
    ELSE [err |-> "NotFoundError", id |-> ""]

(***************************************************************************)
(* core/model.py                                                           *)
(***************************************************************************)
\* lines 8-46: the component objects, by the variable that holds each.
InstancesModel == {
    Component("gas_turbine_minload_electricity", "gas_turbine_minload_electricity", "Conversion", 0),
    Component("gas_turbine_minload_heat", "gas_turbine_minload_heat", "Conversion", 0),
    Component("gas_turbine_maxload_electricity", "gas_turbine_maxload_electricity", "Conversion", 0),
    Component("gas_turbine_maxload_heat", "gas_turbine_maxload_heat", "Conversion", 0),
    Component("gas_boiler", "gas_boiler", "Conversion", 0),
    Component("e_boiler", "e_boiler", "Conversion", 0),
    Component("hrsg", "hrsg", "Conversion", 0),
    Component("electricity_offtake", "Electricity offtake", "Market", 0),
    Component("electricity_injection", "Electricity injection", "Market", 0),
    Component("gas_offtake", "Gas offtake", "Market", 0),
    Component("CO2_allowance", "CO2 allowance", "Market", 0),
    Component("CO2_emission", "CO2_emission", "Conversion", 0),
    Component("heat_demand", "heat_demand", "Demand", 0),
    Component("electricity_demand", "electricity_demand", "Demand", 0),
    Component("heat_supply", "heat_supply", "Summation", 5),
    Component("electricity_consumption", "electricity_consumption", "Summation", 3),
    Component("gas_consumption", "gas_consumption", "Splitter", 4),
    Component("electricity_supply", "electricity_supply", "Splitter", 3) }

\* The add calls without the one of hrsg.
AddsModelWithoutHrsg == <<
    "gas_turbine_minload_electricity", "gas_turbine_minload_heat",
    "gas_turbine_maxload_electricity", "gas_turbine_maxload_heat", "gas_boiler",
    "e_boiler", "electricity_offtake", "electricity_injection", "gas_offtake",
    "heat_demand", "electricity_demand", "heat_supply", "electricity_consumption",
    "gas_consumption", "electricity_supply", "CO2_allowance", "CO2_emission" >>

\* lines 50-67: the add calls, in order.
AddsModel == <<
    "gas_turbine_minload_electricity", "gas_turbine_minload_heat",
    "gas_turbine_maxload_electricity", "gas_turbine_maxload_heat", "gas_boiler", "hrsg",
    "e_boiler", "electricity_offtake", "electricity_injection", "gas_offtake",
    "heat_demand", "electricity_demand", "heat_supply", "electricity_consumption",
    "gas_consumption", "electricity_supply", "CO2_allowance", "CO2_emission" >>

\* lines 71-107: the connect calls, in order.
ConnectsModel == <<
    Connect("gas_offtake", "quantities", "gas_consumption", "input"),
    Connect("gas_consumption", "output0", "gas_boiler", "input"),
    Connect("gas_consumption", "output1", "gas_turbine_minload_electricity", "input"),
    Connect("gas_consumption", "output1", "gas_turbine_minload_heat", "input"),
    Connect("gas_consumption", "output2", "gas_turbine_maxload_electricity", "input"),
    Connect("gas_consumption", "output2", "gas_turbine_maxload_heat", "input"),
    Connect("gas_consumption", "output3", "hrsg", "input"),
    Connect("gas_offtake", "quantities", "CO2_emission", "input"),
    Connect("CO2_emission", "output", "CO2_allowance", "quantities"),
    Connect("gas_turbine_minload_heat", "output", "heat_supply", "input0"),
    Connect("gas_turbine_maxload_heat", "output", "heat_supply", "input1"),
    Connect("gas_boiler", "output", "heat_supply", "input2"),
    Connect("e_boiler", "output", "heat_supply", "input3"),
    Connect("hrsg", "output", "heat_supply", "input4"),
    Connect("heat_supply", "output", "heat_demand", "supply"),
    Connect("electricity_offtake", "quantities", "electricity_consumption", "input0"),
    Connect("gas_turbine_minload_electricity", "output", "electricity_consumption", "input1"),
    Connect("gas_turbine_maxload_electricity", "output", "electricity_consumption", "input2"),
    Connect("electricity_consumption", "output", "electricity_supply", "input"),
    Connect("electricity_supply", "output0", "electricity_demand", "supply"),
    Connect("electricity_supply", "output1", "e_boiler", "input"),
    Connect("electricity_supply", "output2", "electricity_injection", "quantities") >>

(***************************************************************************)
(* core/model_bis.py                                                       *)
(***************************************************************************)
\* lines 8-42
InstancesBis == {
    Component("chp", "chp", "CHP", 0),
    Component("gas_boiler", "gas_boiler", "Conversion", 0),
    Component("e_boiler", "e_boiler", "Conversion", 0),
    Component("electricity_offtake", "Electricity offtake", "Market", 0),
    Component("electricity_injection", "Electricity injection", "Market", 0),
    Component("gas_offtake", "Gas offtake", "Market", 0),
    Component("start_up_cost", "start_up_cost", "Market", 0),
    Component("CO2_allowance", "CO2 allowance", "Market", 0),
    Component("CO2_emission", "CO2_emission", "Conversion", 0),
    Component("heat_demand", "heat_demand", "Demand", 0),
    Component("electricity_demand", "electricity_demand", "Demand", 0),
    Component("heat_supply", "heat_supply", "Summation", 3),
    Component("electricity_consumption", "electricity_consumption", "Summation", 2),
    Component("gas_consumption", "gas_consumption", "Splitter", 2),
    Component("electricity_supply", "electricity_supply", "Splitter", 3),
    Component("penalty_for_gas_to_turbine", "penalty_for_gas_to_turbine", "Market", 0),
    Component("penalty_turbine_no_shutdown", "penalty_turbine_no_shutdown", "Market", 0),
    Component("captar", "captar", "PeakMarket", 0) }

\* lines 46-64
AddsBis == <<
    "gas_boiler", "chp", "e_boiler", "electricity_offtake", "electricity_injection",
    "gas_offtake", "heat_demand", "electricity_demand", "heat_supply",
    "electricity_consumption", "gas_consumption", "electricity_supply", "CO2_allowance",
    "CO2_emission", "start_up_cost", "penalty_for_gas_to_turbine",
    "penalty_turbine_no_shutdown", "captar" >>

\* The connect calls with the offtake wired to input0 of the summation,
\* which the chp output already feeds.
ConnectsBisSameInput == <<
    Connect("gas_offtake", "quantities", "CO2_emission", "input"),
    Connect("CO2_emission", "output", "CO2_allowance", "quantities"),
    Connect("gas_offtake", "quantities", "gas_consumption", "input"),
    Connect("gas_consumption", "output0", "gas_boiler", "input"),
    Connect("gas_consumption", "output1", "chp", "gas_in"),
    Connect("chp", "thermal_output", "heat_supply", "input0"),
    Connect("gas_boiler", "output", "heat_supply", "input1"),
    Connect("e_boiler", "output", "heat_supply", "input2"),
    Connect("heat_supply", "output", "heat_demand", "supply"),
    Connect("chp", "electricity_output", "electricity_consumption", "input0"),
    Connect("electricity_offtake", "quantities", "electricity_consumption", "input0"),
    Connect("electricity_consumption", "output", "electricity_supply", "input"),
    Connect("electricity_supply", "output0", "electricity_demand", "supply"),
    Connect("electricity_supply", "output1", "e_boiler", "input"),
    Connect("electricity_supply", "output2", "electricity_injection", "quantities"),
    Connect("chp", "is_starting_up", "start_up_cost", "quantities"),
    Connect("chp", "gas_to_turbine", "penalty_for_gas_to_turbine", "quantities"),
    Connect("chp", "is_on", "penalty_turbine_no_shutdown", "quantities"),
    Connect("electricity_offtake", "quantities", "captar", "quantities") >>

\* lines 68-96
ConnectsBis == <<
    Connect("gas_offtake", "quantities", "CO2_emission", "input"),
    Connect("CO2_emission", "output", "CO2_allowance", "quantities"),
    Connect("gas_offtake", "quantities", "gas_consumption", "input"),
    Connect("gas_consumption", "output0", "gas_boiler", "input"),
    Connect("gas_consumption", "output1", "chp", "gas_in"),
    Connect("chp", "thermal_output", "heat_supply", "input0"),
    Connect("gas_boiler", "output", "heat_supply", "input1"),
    Connect("e_boiler", "output", "heat_supply", "input2"),
    Connect("heat_supply", "output", "heat_demand", "supply"),
    Connect("chp", "electricity_output", "electricity_consumption", "input0"),
    Connect("electricity_offtake", "quantities", "electricity_consumption", "input1"),
    Connect("electricity_consumption", "output", "electricity_supply", "input"),
    Connect("electricity_supply", "output0", "electricity_demand", "supply"),
    Connect("electricity_supply", "output1", "e_boiler", "input"),
    Connect("electricity_supply", "output2", "electricity_injection", "quantities"),
    Connect("chp", "is_starting_up", "start_up_cost", "quantities"),
    Connect("chp", "gas_to_turbine", "penalty_for_gas_to_turbine", "quantities"),
    Connect("chp", "is_on", "penalty_turbine_no_shutdown", "quantities"),
    Connect("electricity_offtake", "quantities", "captar", "quantities") >>

(***************************************************************************)
(* core/model_biogas.py                                                    *)
(***************************************************************************)
\* The component objects with the electricity demand named like the heat demand.
InstancesBiogasSameName == {
    Component("chp1", "chp1", "CHP", 0),
    Component("chp2", "chp2", "CHP", 0),
    Component("splitter1", "splitter1", "Splitter", 3),
    Component("splitter2", "splitter2", "Splitter", 2),
    Component("splitter3", "splitter3", "Splitter", 2),
    Component("s1", "s1", "Summation", 2),
    Component("s2", "s2", "Summation", 2),
    Component("s3", "s3", "Summation", 2),
    Component("balloon", "balloon", "Storage", 0),
    Component("heat_onsite_demand", "heat_demand", "Demand", 0),
    Component("electricity_onsite_demand", "heat_demand", "Demand", 0),
    Component("electricity_offtake", "Electricity offtake", "Market", 0),
    Component("electricity_injection", "Electricity injection", "Market", 0) }

\* lines 7-29
InstancesBiogas == {
    Component("chp1", "chp1", "CHP", 0),
    Component("chp2", "chp2", "CHP", 0),
    Component("splitter1", "splitter1", "Splitter", 3),
    Component("splitter2", "splitter2", "Splitter", 2),
    Component("splitter3", "splitter3", "Splitter", 2),
    Component("s1", "s1", "Summation", 2),
    Component("s2", "s2", "Summation", 2),
    Component("s3", "s3", "Summation", 2),
    Component("balloon", "balloon", "Storage", 0),
    Component("heat_onsite_demand", "heat_demand", "Demand", 0),
    Component("electricity_onsite_demand", "electricity_demand", "Demand", 0),
    Component("electricity_offtake", "Electricity offtake", "Market", 0),
    Component("electricity_injection", "Electricity injection", "Market", 0) }

\* lines 35-47
AddsBiogas == <<
    "chp1", "chp2", "splitter1", "splitter2", "splitter3", "s1", "s2", "s3", "balloon",
    "heat_onsite_demand", "electricity_onsite_demand", "electricity_offtake",
    "electricity_injection" >>

\* lines 50-66
ConnectsBiogas == <<
    Connect("balloon", "discharge", "splitter1", "input"),
    Connect("splitter1", "output0", "chp1", "gas_in"),
    Connect("splitter1", "output1", "chp2", "gas_in"),
    Connect("chp1", "electricity_output", "s1", "input0"),
    Connect("chp2", "electricity_output", "s1", "input1"),
    Connect("s1", "output", "splitter2", "input"),
    Connect("splitter2", "output0", "s2", "input0"),
    Connect("splitter2", "output1", "electricity_injection", "quantities"),
    Connect("electricity_offtake", "quantities", "s2", "input1"),
    Connect("s2", "output", "electricity_onsite_demand", "supply"),
    Connect("chp1", "thermal_output", "s3", "input0"),
    Connect("chp2", "thermal_output", "s3", "input1"),
    Connect("s3", "output", "splitter3", "input"),
    Connect("splitter3", "output0", "heat_onsite_demand", "supply") >>

Variants == {"model", "model_bis", "model_biogas"}

\* Two component objects that no model file adds: a new component, and a
\* second object carrying the name of the heat demand.
SpareInstances == { Component("spare", "spare", "Conversion", 0),
                    Component("twin", "heat_demand", "Demand", 0) }

Instances(v) == (CASE v = "model" -> InstancesModel
                   [] v = "model_bis" -> InstancesBis
                   [] v = "model_biogas" -> InstancesBiogas) \cup SpareInstances
Adds(v) == CASE v = "model" -> AddsModel
             [] v = "model_bis" -> AddsBis
             [] v = "model_biogas" -> AddsBiogas
\* The connect calls of a model file without its first one.
ConnectsButFirst(v) == Tail(CASE v = "model" -> ConnectsModel
                              [] v = "model_bis" -> ConnectsBis
                              [] v = "model_biogas" -> ConnectsBiogas)
Connects(v) == CASE v = "model" -> ConnectsModel
                 [] v = "model_bis" -> ConnectsBis
                 [] v = "model_biogas" -> ConnectsBiogas

InstanceOf(v, id) == CHOOSE c \in Instances(v) : c.id = id

\* The module-level statements of a model file: the adds, then the connects.
Script(v) == [i \in 1..Len(Adds(v)) |-> [op |-> "add", id |-> Adds(v)[i]]] \o Connects(v)

(***************************************************************************)
(* The data bindings of set_data.  A binding is one statement of the       *)
(* function: the columns its enclosing ifs require, the columns it reads,  *)
(* the component it looks up, and what it sets on it.                      *)
(***************************************************************************)
Binding(test, read, name, kind, port, expr) ==
    [test |-> test, read |-> read, name |-> name, kind |-> kind, port |-> port, expr |-> expr]
\* .vars[port].set_values(df[col].to_list()) under `if col in df.columns`
BindVars(col, name, port) == Binding({col}, {col}, name, "vars", port, "col")
\* .set_values(port, df[col].to_list()) under `if col in df.columns`
BindValues(col, name, port) == Binding({col}, {col}, name, "values", port, "col")

\* core/model.py with the heat demand read outside its column test.
SetDataModelUnguarded == <<
    BindVars("offtake_price", "Electricity offtake", "prices"),
    BindVars("injection_price", "Electricity injection", "prices"),
    BindVars("gas_price", "Gas offtake", "prices"),
    BindVars("co2_price", "CO2 allowance", "prices"),
    Binding({}, {"heat_demand"}, "heat_demand", "vars", "demand", "col"),
    BindVars("electricity_demand", "electricity_demand", "demand"),
    Binding({"gas_turbine_minload_electricity_efficiency"},
            {"gas_turbine_minload_electricity_efficiency"},
            "gas_turbine_minload_electricity", "factor", "", "col"),
    Binding({"gas_turbine_maxload_electricity_efficiency"},
            {"gas_turbine_maxload_electricity_efficiency"},
            "gas_turbine_maxload_electricity", "factor", "", "col"),
    Binding({"gas_turbine_minload_electricity_capacity"},
            {"gas_turbine_minload_electricity_capacity"},
            "gas_turbine_minload_electricity", "bounds", "output", "lbound=col,ubound=col"),
    Binding({"gas_turbine_maxload_electricity_capacity"},
            {"gas_turbine_maxload_electricity_capacity"},
            "gas_turbine_maxload_electricity", "bounds", "output", "lbound=0,ubound=col"),
    Binding({"hrsg_capacity"}, {"hrsg_capacity"}, "hrsg", "bounds", "output",
            "lbound=0,ubound=col") >>

\* core/model.py lines 110-164
SetDataModel == <<
    BindVars("offtake_price", "Electricity offtake", "prices"),
    BindVars("injection_price", "Electricity injection", "prices"),
    BindVars("gas_price", "Gas offtake", "prices"),
    BindVars("co2_price", "CO2 allowance", "prices"),
    BindVars("heat_demand", "heat_demand", "demand"),
    BindVars("electricity_demand", "electricity_demand", "demand"),
    Binding({"gas_turbine_minload_electricity_efficiency"},
            {"gas_turbine_minload_electricity_efficiency"},
            "gas_turbine_minload_electricity", "factor", "", "col"),
    Binding({"gas_turbine_maxload_electricity_efficiency"},
            {"gas_turbine_maxload_electricity_efficiency"},
            "gas_turbine_maxload_electricity", "factor", "", "col"),
    Binding({"gas_turbine_minload_electricity_capacity"},
            {"gas_turbine_minload_electricity_capacity"},
            "gas_turbine_minload_electricity", "bounds", "output", "lbound=col,ubound=col"),
    Binding({"gas_turbine_maxload_electricity_capacity"},
            {"gas_turbine_maxload_electricity_capacity"},
            "gas_turbine_maxload_electricity", "bounds", "output", "lbound=0,ubound=col"),
    Binding({"hrsg_capacity"}, {"hrsg_capacity"}, "hrsg", "bounds", "output",
            "lbound=0,ubound=col") >>

\* core/model_bis.py lines 99-158
\* core/model.py lines 159-164 put into the model_bis bindings: the
\* aux-firing bound taken from the hrsg_capacity column.
SetDataBisWithHrsgCapacity == <<
    BindVars("electricity_offtake_price", "Electricity offtake", "prices"),
    BindVars("electricity_injection_price", "Electricity injection", "prices"),
    BindVars("gas_price", "Gas offtake", "prices"),
    BindVars("co2_price", "CO2 allowance", "prices"),
    BindVars("heat_demand", "heat_demand", "demand"),
    BindVars("electricity_demand", "electricity_demand", "demand"),
    BindValues("gas_turbine_minload_electricity_capacity", "chp", "min_electricity_output"),
    Binding({"hrsg_capacity"}, {"hrsg_capacity"}, "chp", "bounds", "gas_to_aux_firing",
            "ubound=col") >>

SetDataBis == <<
    BindVars("electricity_offtake_price", "Electricity offtake", "prices"),
    BindVars("electricity_injection_price", "Electricity injection", "prices"),
    BindVars("gas_price", "Gas offtake", "prices"),
    Binding({"gas_price"}, {"gas_price"}, "start_up_cost", "vars", "prices", "col*0.0001"),
    BindVars("co2_price", "CO2 allowance", "prices"),
    BindVars("heat_demand", "heat_demand", "demand"),
    BindVars("electricity_demand", "electricity_demand", "demand"),
    BindValues("gas_turbine_minload_electricity_capacity", "chp", "min_electricity_output"),
    Binding({"gas_turbine_minload_electricity_capacity",
             "gas_turbine_maxload_electricity_capacity"},
            {"gas_turbine_minload_electricity_capacity",
             "gas_turbine_maxload_electricity_capacity"},
            "chp", "values", "max_electricity_output", "min+max"),
    Binding({"pc_max_gas"}, {"pc_max_gas"}, "chp", "bounds", "gas_to_aux_firing", "ubound=col"),
    BindValues("gas_turbine_minload_electricity_efficiency", "chp", "min_electrical_efficiency"),
    BindValues("gas_turbine_maxload_electricity_efficiency", "chp", "max_electrical_efficiency") >>

\* core/model_biogas.py lines 76-129
SetDataBiogas == <<
    BindVars("electricity_offtake_price", "Electricity offtake", "prices"),
    BindVars("electricity_injection_price", "Electricity injection", "prices"),
    BindVars("heat_demand", "heat_demand", "demand"),
    BindVars("electricity_demand", "electricity_demand", "demand"),
    BindVars("charging_rate", "balloon", "charge"),
    BindValues("gas_turbine_minload_electricity_capacity", "chp1", "min_electricity_output"),
    BindValues("gas_turbine_maxload_electricity_capacity", "chp1", "max_electricity_output"),
    Binding({"pc_max_gas"}, {"pc_max_gas"}, "chp1", "bounds", "gas_to_aux_firing", "ubound=col"),
    BindValues("gas_turbine_minload_electricity_capacity", "chp2", "min_electricity_output"),
    BindValues("gas_turbine_maxload_electricity_capacity", "chp2", "max_electricity_output"),
    Binding({"pc_max_gas"}, {"pc_max_gas"}, "chp2", "bounds", "gas_to_aux_firing", "ubound=col") >>

SetDataBindings(v) == CASE v = "model" -> SetDataModel
                        [] v = "model_bis" -> SetDataBis
                        [] v = "model_biogas" -> SetDataBiogas

\* .set_conversion_factor(params[key]) under `if key in params`
BindFactor(key, name) == Binding({key}, {key}, name, "factor", "", "param")
\* .set_bounds("output", lbound=0, ubound=params[key]) under `if key in params`
BindOutputBound(key, name) == Binding({key}, {key}, name, "bounds", "output", "lbound=0,ubound=param")

\* core/model.py lines 167-204
SetParametersModel == <<
    BindFactor("gas_turbine_minload_heat_efficiency", "gas_turbine_minload_heat"),
    BindFactor("gas_turbine_maxload_heat_efficiency", "gas_turbine_maxload_heat"),
    BindFactor("hrsg_efficiency", "hrsg"),
    BindFactor("gas_boiler_efficiency", "gas_boiler"),
    BindOutputBound("gas_boiler_capacity", "gas_boiler"),
    BindFactor("e_boiler_efficiency", "e_boiler"),
    BindOutputBound("e_boiler_capacity", "e_boiler") >>

\* core/model_bis.py lines 161-209
SetParametersBis == <<
    Binding({"gas_turbine_minload_heat_efficiency"}, {"gas_turbine_minload_heat_efficiency"},
            "chp", "values", "thermal_efficiency", "param"),
    Binding({"hrsg_efficiency"}, {"hrsg_efficiency"}, "chp", "values",
            "aux_firing_efficiency", "param"),
    BindFactor("gas_boiler_efficiency", "gas_boiler"),
    BindOutputBound("gas_boiler_capacity", "gas_boiler"),
    BindFactor("e_boiler_efficiency", "e_boiler"),
    BindOutputBound("e_boiler_capacity", "e_boiler"),
    Binding({"penalty_for_gas_to_turbine"}, {"penalty_for_gas_to_turbine"},
            "penalty_for_gas_to_turbine", "values", "prices", "param"),
    Binding({"penalty_turbine_no_shutdown"}, {"penalty_turbine_no_shutdown"},
            "penalty_turbine_no_shutdown", "values", "prices", "param"),
    Binding({"elec_grid_cost_power_peak"}, {"elec_grid_cost_power_peak"},
            "captar", "values", "prices", "param") >>

\* core/model_biogas.py lines 132-165: the key each `if` tests and the key
\* the statement under it reads.
SetParametersBiogas == <<
    Binding({"gas_turbine_heat_efficiency"}, {"gas_turbine_minload_heat_efficiency"},
            "chp1", "values", "thermal_efficiency", "param"),
    Binding({"gas_turbine_electricity_efficiency"}, {"gas_turbine_minload_electricity_efficiency"},
            "chp1", "values", "electricity_efficiency", "param"),
    Binding({"hrsg_efficiency"}, {"hrsg_efficiency"}, "chp1", "values",
            "aux_firing_efficiency", "param"),
    Binding({"gas_turbine_heat_efficiency"}, {"gas_turbine_minload_heat_efficiency"},
            "chp2", "values", "thermal_efficiency", "param"),
    Binding({"gas_turbine_electricity_efficiency"}, {"gas_turbine_minload_electricity_efficiency"},
            "chp2", "values", "electricity_efficiency", "param"),
    Binding({"hrsg_efficiency"}, {"hrsg_efficiency"}, "chp2", "values",
            "aux_firing_efficiency", "param"),
    Binding({"maximum capacity of balloon"}, {"maximum capacity of balloon"},
            "balloon", "max_charge", "#max_charge", "param") >>

SetParametersBindings(v) == CASE v = "model" -> SetParametersModel
                              [] v = "model_bis" -> SetParametersBis
                              [] v = "model_biogas" -> SetParametersBiogas

\* The component names set_parameters passes to get_component.
SetParametersNames(v) ==
    CASE v = "model" -> {"gas_turbine_minload_heat", "gas_turbine_maxload_heat", "hrsg",
                         "gas_boiler", "e_boiler"}
      [] v = "model_bis" -> {"chp", "gas_boiler", "e_boiler", "penalty_for_gas_to_turbine",
                             "penalty_turbine_no_shutdown", "captar"}
      [] v = "model_biogas" -> {"chp1", "chp2", "balloon"}

SetDataNames(v) == { SetDataBindings(v)[i].name : i \in 1..Len(SetDataBindings(v)) }
GetComponentNames(v) == SetDataNames(v) \cup SetParametersNames(v)

\* What a binding sets: the values of a port, the bounds of a port, or the
\* conversion factor of the component.
SlotOf(b) == <<b.name, CASE b.kind = "bounds" -> b.port \o "#bounds"
                         [] b.kind = "factor" -> "#conversion_factor"
                         [] OTHER -> b.port>>
SlotKeys(v) == { SlotOf(SetDataBindings(v)[i]) : i \in 1..Len(SetDataBindings(v)) }
DefaultSlot == [expr |-> "default", data |-> EmptyDict]
ParamSlotKeys(v) == { SlotOf(SetParametersBindings(v)[i]) : i \in 1..Len(SetParametersBindings(v)) }
InitialSlots(v) == [k \in SlotKeys(v) \cup ParamSlotKeys(v) |-> DefaultSlot]

Columns(v) == UNION { SetDataBindings(v)[i].test \cup SetDataBindings(v)[i].read :
                      i \in 1..Len(SetDataBindings(v)) }

\* A statement that takes what it reads out of its input (df.pop(col)).
ApplyBindingConsuming(v, comps, b, T, sl) ==
    IF ~(b.test \subseteq DOMAIN T) \/ ~(b.read \subseteq DOMAIN T)
    THEN [err |-> NoError, slots |-> sl, input |-> T]
    ELSE [err |-> get_component(comps, b.name).err,
          slots |-> [sl EXCEPT ![SlotOf(b)] =
                         [expr |-> b.expr, data |-> [c \in b.read |-> T[c]]]],
          input |-> Without(T, b.read)]

\* One statement of set_data or set_parameters on an input T (column or
\* key -> data): the exception it raises, the port data and the input after it.
ApplyBinding(v, comps, b, T, sl) ==
    IF ~(b.test \subseteq DOMAIN T) THEN [err |-> NoError, slots |-> sl, input |-> T]
    ELSE LET found == get_component(comps, b.name) IN
         IF found.err # NoError THEN [err |-> found.err, slots |-> sl, input |-> T]
         ELSE LET inst == InstanceOf(v, found.id) IN
              IF b.kind = "vars" /\ b.port \notin PortsOf(inst.type, inst.n)
              THEN [err |-> "KeyError", slots |-> sl, input |-> T]
              ELSE IF ~(b.read \subseteq DOMAIN T)
              THEN [err |-> "KeyError", slots |-> sl, input |-> T]
              ELSE IF b.kind \in {"values", "bounds"} /\ b.port \notin PortsOf(inst.type, inst.n)
              THEN [err |-> "UnknownPortError", slots |-> sl, input |-> T]
              ELSE [err |-> NoError,
                    slots |-> [sl EXCEPT ![SlotOf(b)] =
                                   [expr |-> b.expr, data |-> [c \in b.read |-> T[c]]]],
                    input |-> T]

RECURSIVE ApplyBindings(_, _, _, _, _, _)
ApplyBindings(v, comps, bs, i, T, sl) ==
    IF i > Len(bs) THEN [err |-> NoError, slots |-> sl, input |-> T]
    ELSE LET r == ApplyBinding(v, comps, bs[i], T, sl) IN
         IF r.err # NoError THEN r ELSE ApplyBindings(v, comps, bs, i + 1, r.input, r.slots)

set_data(v, comps, T, sl) == ApplyBindings(v, comps, SetDataBindings(v), 1, T, sl)

set_parameters(v, comps, P, sl) == ApplyBindings(v, comps, SetParametersBindings(v), 1, P, sl)

ParamKeys(v) == UNION { SetParametersBindings(v)[i].test \cup SetParametersBindings(v)[i].read :
                        i \in 1..Len(SetParametersBindings(v)) }

\* The mappings offered to set_parameters: all keys, all but one, one, none.
ParamShapes(v) == {ParamKeys(v), {}} \cup { ParamKeys(v) \ {k} : k \in ParamKeys(v) }
                                     \cup { {k} : k \in ParamKeys(v) }

\* The tables offered to set_data: all columns, all but one, none.
TableShapes(v) == {Columns(v), {}} \cup { Columns(v) \ {c} : c \in Columns(v) }

(***************************************************************************)
(* SpecGraph: importing a model file runs its script; afterwards callers   *)
(* of get_model() use the Model.                                           *)
(***************************************************************************)
InitGraph == /\ variant \in Variants
             /\ gpc = 1
             /\ gerr = NoError
             /\ components = EmptyDict
             /\ connections = {}
             /\ slots = InitialSlots(variant)
             /\ slotsBefore = InitialSlots(variant)
             /\ table = EmptyDict
             /\ probe = NoProbe

Assembling == gpc <= Len(Script(variant)) /\ gerr = NoError
Assembled == gpc > Len(Script(variant)) /\ gerr = NoError

HasPort(v, p) == p[2] \in PortsOf(InstanceOf(v, p[1]).type, InstanceOf(v, p[1]).n)

\* m.add(x)
AssembleAdd ==
    /\ Assembling
    /\ Script(variant)[gpc].op = "add"
    /\ LET r == model_add(components, InstanceOf(variant, Script(variant)[gpc].id)) IN
         /\ components' = r.components
         /\ gerr' = r.err
         /\ gpc' = IF r.err = NoError THEN gpc + 1 ELSE gpc
    /\ UNCHANGED <<variant, connections, slots, slotsBefore, table, probe>>
    /\ UNCHANGED notGraph

\* m.connect(a.vars[p], b.vars[q])
AssembleConnect ==
    /\ Assembling
    /\ Script(variant)[gpc].op = "connect"
    /\ LET st == Script(variant)[gpc]
           r == IF HasPort(variant, st.src) /\ HasPort(variant, st.dst)
                THEN model_connect(components, connections, st.src, st.dst)
                ELSE [err |-> "KeyError", connections |-> connections] IN
         /\ connections' = r.connections
         /\ gerr' = r.err
         /\ gpc' = IF r.err = NoError THEN gpc + 1 ELSE gpc
    /\ UNCHANGED <<variant, components, slots, slotsBefore, table, probe>>
    /\ UNCHANGED notGraph

Calling(op, err, id, src, dst) ==
    /\ Assembled
    /\ probe.n < MaxProbes
    /\ probe' = [n |-> probe.n + 1, op |-> op, err |-> err, id |-> id, src |-> src, dst |-> dst]

\* get_model().add(c), for any component object
AddComponent ==
    \E c \in Instances(variant) :
        LET r == model_add(components, c) IN
        /\ Calling("add", r.err, c.id, NoPort, NoPort)
        /\ components' = r.components
        /\ UNCHANGED <<variant, gpc, gerr, connections, slots, slotsBefore, table>>
        /\ UNCHANGED notGraph

\* The sources tried: the one of the first connect call, and one of a
\* component object the file does not add.
SourcePorts(v) == {Connects(v)[1].src, <<"spare", "output">>}
DestinationPorts(v) == { Connects(v)[i].dst : i \in 1..Len(Connects(v)) } \cup {<<"spare", "input">>}

\* get_model().connect(p, q), for ports of the component objects
ConnectPorts ==
    \E src \in SourcePorts(variant), dst \in DestinationPorts(variant) :
        LET r == model_connect(components, connections, src, dst) IN
        /\ Calling("connect", r.err, "", src, dst)
        /\ connections' = r.connections
        /\ UNCHANGED <<variant, gpc, gerr, components, slots, slotsBefore, table>>
        /\ UNCHANGED notGraph

\* model.set_data(df)
SetData ==
    \E shape \in TableShapes(variant) :
        LET T == [c \in shape |-> probe.n + 1]
            r == set_data(variant, components, T, slots) IN
        /\ Calling("set_data", r.err, "", NoPort, NoPort)
        /\ slots' = r.slots
        /\ slotsBefore' = slots
        /\ table' = T
        /\ UNCHANGED <<variant, gpc, gerr, components, connections>>
        /\ UNCHANGED notGraph

\* model.set_parameters(params)
SetParameters ==
    \E shape \in ParamShapes(variant) :
        LET P == [k \in shape |-> probe.n + 1]
            r == set_parameters(variant, components, P, slots) IN
        /\ Calling("set_parameters", r.err, "", NoPort, NoPort)
        /\ slots' = r.slots
        /\ slotsBefore' = slots
        /\ table' = P
        /\ UNCHANGED <<variant, gpc, gerr, components, connections>>
        /\ UNCHANGED notGraph

\* A get_model that builds a Model of its own at every call.
get_model_rebuilding(instance, comps, conns) ==
    [id |-> "Model()", components |-> EmptyDict, connections |-> {}]

\* get_model (model_bis.py lines 217-218): `return m`, the module-level
\* instance with whatever it holds.
get_model(instance, comps, conns) ==
    [id |-> instance, components |-> comps, connections |-> conns]

\* The instance `m = model.Model()` creates when the file is imported.
ModuleInstance == "m"

\* model = get_model() (run_scenarios.py line 66); the graph seen from now
\* on is the one of the instance returned.
GetModel ==
    LET r == get_model(ModuleInstance, components, connections) IN
    /\ Calling("get_model", NoError, r.id, NoPort, NoPort)
    /\ components' = r.components
    /\ connections' = r.connections
    /\ UNCHANGED <<variant, gpc, gerr, slots, slotsBefore, table>>
    /\ UNCHANGED notGraph

\* What get_data returns (core/data_generator.py): one series per column,
\* the same for every scenario with the same window.
GetDataColumns == {"process_timestamp", "heat_demand", "electricity_demand", "da_price",
                   "gas_price", "co2_price", "temperature"}
Series == 1

\* The scenarios run_scenario is given: they differ in the name (which
\* selects the penalties), hrsg_capacity, hrsg_efficiency and
\* gas_turbine_maxload_heat_efficiency.
RunScenarios ==
    { [BaseArgs(n) EXCEPT !.hrsg_capacity = c, !.hrsg_efficiency = e,
                          !.gas_turbine_maxload_heat_efficiency = h] :
      n \in {"A", "Flex_0"}, c \in {12, 24}, e \in {1, 2}, h \in {47, 48} }

\* run_scenario lines 46-133: the columns it adds to or overwrites in data.
ScenarioData(s) ==
    Update([c \in GetDataColumns |-> Series],
      [electricity_offtake_price |->
           s.elec_offtake_contract_param_a * Series + s.elec_offtake_contract_param_b
           + s.elec_grid_cost_energy + s.elec_offtake_tax_energy,
       electricity_injection_price |->
           0 - (s.elec_injection_contract_param_a * Series - s.elec_injection_contract_param_b),
       gas_price |-> s.gas_offtake_contract_param_a * Series + s.gas_offtake_contract_param_b
                     + s.gas_grid_cost_energy,
       low_demand |-> 0,
       gas_turbine_minload_electricity_efficiency |-> s.gas_turbine_minload_electricity_efficiency,
       gas_turbine_maxload_electricity_efficiency |-> s.gas_turbine_maxload_electricity_efficiency,
       gas_turbine_minload_electricity_capacity |-> s.gas_turbine_minload_electricity_capacity,
       gas_turbine_maxload_electricity_capacity |-> s.gas_turbine_maxload_electricity_capacity,
       hrsg_capacity |-> s.hrsg_capacity,
       max_gas_to_aux_firing |-> s.hrsg_capacity \div s.hrsg_efficiency])

PenalisedTurbine == {"Flex_0", "Flex_4", "Flex_5.1", "Flex_5.11", "Flex_5.2", "Flex_5.3"}
PenalisedShutdown == {"Flex_0", "Flex_1.1", "Flex_1.2", "Flex_1.3", "Flex_1.4", "Flex_1.5"}

\* run_scenario lines 83-92 and 162-186: params.
ScenarioParams(s) ==
    [gas_turbine_minload_heat_efficiency |-> s.gas_turbine_minload_heat_efficiency,
     gas_turbine_maxload_heat_efficiency |-> s.gas_turbine_maxload_heat_efficiency,
     gas_boiler_efficiency |-> s.gas_boiler_efficiency,
     gas_boiler_capacity |-> s.gas_boiler_capacity,
     e_boiler_efficiency |-> s.e_boiler_efficiency,
     e_boiler_capacity |-> s.e_boiler_capacity,
     hrsg_efficiency |-> s.hrsg_efficiency,
     elec_grid_cost_power_peak |-> s.elec_grid_cost_power_peak,
     penalty_for_gas_to_turbine |-> IF s.name \in PenalisedTurbine THEN 0 - 100000 ELSE 0,
     penalty_turbine_no_shutdown |-> IF s.name \in PenalisedShutdown THEN 0 - 100000 ELSE 0]

\* The binding dispatch(model, params, data) does before it solves: the
\* set_data callback on data, then the set_parameters callback on params.
dispatch_binding(v, comps, data, params, sl) ==
    LET d == set_data(v, comps, data, sl)
    IN  IF d.err # NoError THEN d ELSE set_parameters(v, comps, params, d.slots)

\* run_scenario lines 32-188 on the model_bis Model: data and params from
\* the scenario, then the binding.
RunBinding ==
    /\ variant = "model_bis"
    /\ \E s \in RunScenarios :
          LET r == dispatch_binding(variant, components, ScenarioData(s), ScenarioParams(s), slots) IN
          /\ Calling("run_scenario", r.err, s.name, NoPort, NoPort)
          /\ slots' = r.slots
          /\ slotsBefore' = slots
          /\ table' = Update(ScenarioData(s), ScenarioParams(s))
    /\ UNCHANGED <<variant, gpc, gerr, components, connections>>
    /\ UNCHANGED notGraph

NextGraph == AssembleAdd \/ AssembleConnect \/ AddComponent \/ ConnectPorts \/ SetData

StartGraph == InitGraph /\ IdleScenario /\ IdleStore /\ IdleBatch /\ IdleAnalysis /\ IdleData /\ IdleShared /\ clock = 0
SpecGraph == StartGraph /\ [][NextGraph]_vars

\* What a run does with the assembled Model: get_model, and the binding
\* callbacks as dispatch calls them.
NextBinding == AssembleAdd \/ AssembleConnect \/ GetModel \/ SetData \/ SetParameters
               \/ RunBinding
SpecBinding == StartGraph /\ [][NextBinding]_vars

(***************************************************************************)
(* Claims on the component graph                                           *)
(***************************************************************************)
NewCall(op) == probe'.n = probe.n + 1 /\ probe'.op = op
OwnersRegistered(src, dst) == src[1] \in Registered(components) /\ dst[1] \in Registered(components)
Incoming(dst) == { c \in connections : c.dst = dst }

SingleWriter == \A a, b \in connections : a.dst = b.dst => a = b
DistinctDestinations ==
    \A i, j \in 1..Len(Connects(variant)) :
        i # j => Connects(variant)[i].dst # Connects(variant)[j].dst
ConnectOutcome ==
    (NewCall("connect") /\ OwnersRegistered(probe'.src, probe'.dst)) =>
        IF Incoming(probe'.dst) # {}
        THEN probe'.err = "MultipleWriterError" /\ connections' = connections
        ELSE /\ probe'.err = NoError
             /\ connections' = connections \cup {[src |-> probe'.src, dst |-> probe'.dst]}

\* C7: every port is the destination of at most one connection; a connect
\* to a destination that already has an incoming connection fails with
\* MultipleWriterError and leaves the connections unchanged, a connect of an
\* already used source to a free destination succeeds; the connect calls of
\* each model file have pairwise distinct destinations and none of them
\* fails with MultipleWriterError.
C7_SingleWriter ==
    /\ [](SingleWriter /\ DistinctDestinations /\ gerr # "MultipleWriterError")
    /\ [][ConnectOutcome]_vars

\* A second source was refused on a destination the file had connected,
\* in a Model where one source feeds two destinations.
C7_Witness ==
    /\ Assembled
    /\ probe.op = "connect" /\ probe.err = "MultipleWriterError"
    /\ \E c \in connections : c.dst = probe.dst /\ c.src # probe.src
    /\ \E a, b \in connections : a.src = b.src /\ a.dst # b.dst

NamesDistinct ==
    \A i, j \in 1..Len(Adds(variant)) :
        i # j => InstanceOf(variant, Adds(variant)[i]).name # InstanceOf(variant, Adds(variant)[j]).name
ReturnsAdded ==
    \A i \in 1..Len(Adds(variant)) :
        get_component(components, InstanceOf(variant, Adds(variant)[i]).name)
            = [err |-> NoError, id |-> Adds(variant)[i]]
AddOutcome ==
    NewCall("add") =>
        IF InstanceOf(variant, probe'.id).name \in DOMAIN components
        THEN /\ probe'.err = "DuplicateNameError"
             /\ components' = components /\ connections' = connections /\ slots' = slots
        ELSE /\ probe'.err = NoError
             /\ get_component(components', InstanceOf(variant, probe'.id).name).id = probe'.id

\* C8: add of a component whose name is registered fails with
\* DuplicateNameError and changes nothing; once a model file is assembled
\* get_component returns, for every component the file added, that very
\* object; the names a file adds are pairwise distinct, no add of the file
\* fails, and every name its set_data and set_parameters look up was added.
C8_UniqueNames ==
    /\ [](/\ NamesDistinct
          /\ gerr # "DuplicateNameError"
          /\ (Assembled => ReturnsAdded /\ GetComponentNames(variant) \subseteq DOMAIN components))
    /\ [][AddOutcome]_vars

\* A second object named heat_demand was refused and the lookup still
\* returns the first.
C8_Witness ==
    /\ Assembled
    /\ probe.op = "add" /\ probe.id = "twin" /\ probe.err = "DuplicateNameError"
    /\ get_component(components, "heat_demand").id \notin {"twin", ""}

OwnersAddedFirst ==
    \A c \in connections : c.src[1] \in Registered(components) /\ c.dst[1] \in Registered(components)
UnboundOutcome ==
    (NewCall("connect") /\ ~OwnersRegistered(probe'.src, probe'.dst)) =>
        probe'.err = "UnboundPortError" /\ connections' = connections

\* C9: connect fails with UnboundPortError when the component of its source
\* port or of its destination port has not been added; in each model file
\* the components of both ports of every connect call were added before
\* it, so no connect of the file fails with UnboundPortError.
C9_AddBeforeConnect ==
    /\ [](OwnersAddedFirst /\ gerr # "UnboundPortError")
    /\ [][UnboundOutcome]_vars

\* Both orders happened: a port of an object that was never added was
\* refused, and the file's own connects are all recorded.
C9_Witness ==
    /\ Assembled
    /\ probe.op = "connect" /\ probe.err = "UnboundPortError"
    /\ "spare" \notin Registered(components)
    /\ \A i \in 1..Len(Connects(variant)) :
           [src |-> Connects(variant)[i].src, dst |-> Connects(variant)[i].dst] \in connections

BoundFrom(k) == { i \in 1..Len(SetDataBindings(variant)) : SlotOf(SetDataBindings(variant)[i]) = k }
ColumnsPresent(i) == SetDataBindings(variant)[i].read \subseteq DOMAIN table

\* C10: set_data on a table that lacks columns raises nothing; whatever is
\* bound from a missing column (values, bounds or conversion factor) is as
\* it was before the call, and whatever did change has its columns in the
\* table.
C10_SilentSkip ==
    probe.op = "set_data" =>
        /\ probe.err = NoError
        /\ \A k \in SlotKeys(variant) :
               /\ (\E i \in BoundFrom(k) : ~ColumnsPresent(i)) => slots[k] = slotsBefore[k]
               /\ slots[k] # slotsBefore[k] => \E i \in BoundFrom(k) : ColumnsPresent(i)

\* A table without heat_demand left the demand values of an earlier call
\* in place while other ports took the new data.
C10_Witness ==
    /\ probe.op = "set_data" /\ probe.err = NoError
    /\ "heat_demand" \notin DOMAIN table
    /\ slotsBefore[<<"heat_demand", "demand">>] # DefaultSlot
    /\ slots[<<"heat_demand", "demand">>] = slotsBefore[<<"heat_demand", "demand">>]
    /\ \E k \in SlotKeys(variant) : slots[k] # slotsBefore[k]

(***************************************************************************)
(* Claims on the binding callbacks                                         *)
(***************************************************************************)
BindingCall == NewCall("set_data") \/ NewCall("set_parameters")

\* What a second call on the same input object does after a first one.
SameAfterSecondCall(once, twice, input) ==
    /\ once.input = input /\ twice.input = input
    /\ twice.slots = once.slots
    /\ twice.err = once.err

IdempotentOnEveryInput ==
    Assembled =>
        /\ \A shape \in TableShapes(variant) :
               LET T == [c \in shape |-> probe.n + 1]
                   once == set_data(variant, components, T, slots)
               IN  SameAfterSecondCall(once, set_data(variant, components, once.input, once.slots), T)
        /\ \A shape \in ParamShapes(variant) :
               LET P == [k \in shape |-> probe.n + 1]
                   once == set_parameters(variant, components, P, slots)
               IN  SameAfterSecondCall(once, set_parameters(variant, components, once.input, once.slots), P)

\* C11: for each model file, set_data and set_parameters called a second
\* time with the same input leave the port data as the first call left it
\* and leave the input as it was given; a call changes nothing but port
\* data: not the components, not the connections, not the scenario store.
C11_IdempotentBinding ==
    /\ []IdempotentOnEveryInput
    /\ [][BindingCall => /\ components' = components /\ connections' = connections
                         /\ UNCHANGED <<variant, gpc, gerr, notGraph>>]_vars

\* set_data of model_bis bound the full table, including the scaled
\* start-up price, and binding the same table again changes nothing.
C11_Witness ==
    /\ variant = "model_bis" /\ probe.op = "set_data" /\ probe.err = NoError
    /\ DOMAIN table = Columns(variant)
    /\ slots # slotsBefore
    /\ slots[<<"start_up_cost", "prices">>] = [expr |-> "col*0.0001", data |-> [c \in {"gas_price"} |-> table["gas_price"]]]
    /\ set_data(variant, components, table, slots).slots = slots

ParamBoundFrom(k) == { i \in 1..Len(SetParametersBindings(variant)) :
                         SlotOf(SetParametersBindings(variant)[i]) = k }
KeyTested(i) == SetParametersBindings(variant)[i].test \subseteq DOMAIN table

\* C18: set_parameters of every model file, on every mapping, returns
\* normally, and a port none of whose bindings finds its key in the mapping
\* is as it was before the call.
C18_SkipsAbsentKeys ==
    probe.op = "set_parameters" =>
        /\ probe.err = NoError
        /\ \A k \in ParamSlotKeys(variant) :
               (\A i \in ParamBoundFrom(k) : ~KeyTested(i)) => slots[k] = slotsBefore[k]

\* What the module-level statements of the file add and connect.
AssemblyComponents ==
    LET ids == { Adds(variant)[i] : i \in 1..Len(Adds(variant)) }
    IN  [n \in { InstanceOf(variant, id).name : id \in ids } |->
            CHOOSE id \in ids : InstanceOf(variant, id).name = n]
AssemblyConnections ==
    { [src |-> Connects(variant)[i].src, dst |-> Connects(variant)[i].dst] :
      i \in 1..Len(Connects(variant)) }

\* C20: once the file is imported, get_model returns the module-level
\* instance at every call, and no call of get_model, set_data or
\* set_parameters adds or removes a component or a connection: the
\* components and the connections are those the module-level statements
\* produced.
C20_GraphBuiltOnce ==
    /\ [](Assembled => /\ components = AssemblyComponents
                       /\ connections = AssemblyConnections
                       /\ (probe.op = "get_model" => probe.id = ModuleInstance))
    /\ [][Assembled => (components' = components /\ connections' = connections)]_vars

\* C20 witness: model_bis was imported, set_data bound a full table, and a
\* later get_model returned the instance with its eighteen components.
C20_Witness ==
    /\ variant = "model_bis" /\ Assembled
    /\ probe.n = 2 /\ probe.op = "get_model" /\ probe.id = ModuleInstance
    /\ slots # InitialSlots(variant)
    /\ Cardinality(DOMAIN components) = 18
    /\ connections # {}

\* The port holds the data of the column as the table of the last call gave it.
Rebound(k, col) == /\ col \in DOMAIN slots[k].data
                   /\ slots[k].data[col] = table[col]

\* C22: after set_data of model_bis, the chp port max_electricity_output
\* holds the data of this table whenever the table has the column
\* gas_turbine_maxload_electricity_capacity, and min_electricity_output
\* whenever it has the minload column, whatever other columns it has.
C22_OwnColumnOnly ==
    (variant = "model_bis" /\ probe.op = "set_data" /\ probe.err = NoError) =>
        /\ "gas_turbine_maxload_electricity_capacity" \in DOMAIN table =>
               Rebound(<<"chp", "max_electricity_output">>, "gas_turbine_maxload_electricity_capacity")
        /\ "gas_turbine_minload_electricity_capacity" \in DOMAIN table =>
               Rebound(<<"chp", "min_electricity_output">>, "gas_turbine_minload_electricity_capacity")

\* What run_scenario derives from the scenario and C29 says is unused.
UnusedInputs == {"hrsg_capacity", "max_gas_to_aux_firing", "gas_turbine_maxload_heat_efficiency"}

AuxFiringBound == <<"chp", "gas_to_aux_firing#bounds">>

\* C29: after run_scenario has bound its data and params to the model_bis
\* Model, no binding has read hrsg_capacity, max_gas_to_aux_firing or
\* gas_turbine_maxload_heat_efficiency: they are no column or key of any
\* binding, the aux-firing bound (bound from pc_max_gas, which the table
\* lacks) is what it was before, and the Model is in the state any
\* scenario leaves it in that agrees with this one on every other input.
C29_UnusedInputs ==
    (probe.op = "run_scenario" /\ probe.err = NoError) =>
        /\ UnusedInputs \cap (Columns(variant) \cup ParamKeys(variant)) = {}
        /\ UnusedInputs \subseteq DOMAIN table
        /\ "pc_max_gas" \in Columns(variant) \ DOMAIN table
        /\ slots[AuxFiringBound] = slotsBefore[AuxFiringBound]
        /\ \A k \in DOMAIN slots : DOMAIN slots[k].data \cap UnusedInputs = {}
        /\ \A s \in RunScenarios :
              Without(Update(ScenarioData(s), ScenarioParams(s)), UnusedInputs)
                  = Without(table, UnusedInputs)
              => dispatch_binding(variant, components, ScenarioData(s), ScenarioParams(s),
                                  slotsBefore).slots = slots

\* C29 witness: a run with hrsg_capacity 24 and maxload heat efficiency 48
\* has bound hrsg_efficiency and the minload heat efficiency, and the
\* aux-firing bound is still the component's default.
C29_Witness ==
    /\ probe.op = "run_scenario" /\ probe.err = NoError
    /\ table["hrsg_capacity"] = 24 /\ table["gas_turbine_maxload_heat_efficiency"] = 48
    /\ table["max_gas_to_aux_firing"] = 12
    /\ slots[<<"chp", "aux_firing_efficiency">>].data = [hrsg_efficiency |-> 2]
    /\ slots[<<"chp", "thermal_efficiency">>].expr = "param"
    /\ slots[AuxFiringBound] = DefaultSlot

\* The ports of a component that take a flow in.
InputSidePorts(c) ==
    CASE c.type \in {"Conversion", "Splitter"} -> {"input"}
      [] c.type = "Summation" -> Numbered("input", c.n)
      [] c.type = "Demand" -> {"supply"}
      [] c.type = "CHP" -> {"gas_in"}
      [] OTHER -> {}

\* The components the script has added.
Added(v, comps) == { InstanceOf(v, id) : id \in Registered(comps) }

\* The ports a set_values statement of set_data or set_parameters targets.
SetValuesTargets(v, comps) ==
    LET bs == SetDataBindings(v) \o SetParametersBindings(v)
    IN  { <<comps[bs[i].name], bs[i].port>> :
            i \in { j \in 1..Len(bs) : bs[j].kind \in {"vars", "values"}
                                        /\ bs[j].name \in DOMAIN comps } }

\* The connect calls of the script with destination port p.
CallsInto(v, p) == { i \in 1..Len(Connects(v)) : Connects(v)[i].dst = p }

\* C30: in each assembled variant every input-side port of every added
\* component is the destination of exactly one connect call and of one
\* connection, every port named in a connection exists on its component
\* for the declared arity, and no destination of a connection is the
\* target of a set_values statement of that variant.
C30_StructurallyComplete ==
    Assembled =>
        /\ \A c \in Added(variant, components) : \A p \in InputSidePorts(c) :
              /\ Cardinality(CallsInto(variant, <<c.id, p>>)) = 1
              /\ Cardinality({ k \in connections : k.dst = <<c.id, p>> }) = 1
        /\ \A k \in connections :
              /\ HasPort(variant, k.src)
              /\ HasPort(variant, k.dst)
              /\ k.dst \notin SetValuesTargets(variant, components)

\* C30 witness: the model_bis graph is assembled; its three-input heat
\* summation has one connection into each input, the chp is fed, and the
\* start-up market, whose prices are bound, receives its quantities from
\* a connection.
C30_Witness ==
    /\ Assembled /\ variant = "model_bis"
    /\ { k.dst[2] : k \in { c \in connections : c.dst[1] = "heat_supply" } }
          = {"input0", "input1", "input2"}
    /\ \E k \in connections : k.dst = <<"chp", "gas_in">>
    /\ <<"start_up_cost", "prices">> \in SetValuesTargets(variant, components)
    /\ \E k \in connections : k.dst = <<"start_up_cost", "quantities">>

(***************************************************************************)
(* analysis/analyse_results.py: get_toegangsvermogen_cost and the costs of *)
(* create_scenario_overview.  Money is counted in halves so that round()   *)
(* has ties to break: a total is a number of half euros, and the fixed     *)
(* power cost is a number of 1/24000 EUR, which makes                      *)
(* fixed * capacity * 1000 * 12 a number of half euros (2.0 is 48000).     *)
(***************************************************************************)
Num(n) == [kind |-> "num", v |-> n]
NaN == [kind |-> "nan", v |-> 0]
Inf == [kind |-> "inf", v |-> 0]
Text == [kind |-> "text", v |-> 0]

\* round(n / d) of Python 3: to the nearest integer, ties to the even one.
RoundHalfEven(n, d) ==
    LET q == n \div d
        r == n % d
    IN  IF 2 * r < d THEN q
        ELSE IF 2 * r > d THEN q + 1
        ELSE IF q % 2 = 0 THEN q ELSE q + 1

\* The cost of one month only.
toegangsvermogen_one_month(fixed, capacity) == RoundHalfEven(fixed * capacity, 24)

\* round(elec_grid_cost_power_fixed * e_boiler_capacity * 1000 * 12), line 593
toegangsvermogen_formula(fixed, capacity) == RoundHalfEven(fixed * capacity, 2)

\* row.iloc[0].get(column, 0)
RowGet(sh, row, column) == IF column \in sh.columns THEN row[column] ELSE Num(0)

\* The rows of df[df["Name"] == scenario_name], as indexes
Matching(sh, name) == { i \in 1..Len(sh.rows) : sh.rows[i].Name = name }

\* Lines 586-593, the body of the try: the exception it raises, or what it returns.
toegangsvermogen_try(sh, name) ==
    IF sh.state = "unreadable" THEN [err |-> "ValueError", value |-> 0]
    ELSE IF "Name" \notin sh.columns THEN [err |-> "KeyError", value |-> 0]
    ELSE IF Matching(sh, name) = {} THEN [err |-> NoError, value |-> 0]
    ELSE LET row == sh.rows[CHOOSE i \in Matching(sh, name) : \A j \in Matching(sh, name) : i <= j]
             fixed == RowGet(sh, row, "elec_grid_cost_power_fixed")
             capacity == RowGet(sh, row, "e_boiler_capacity")
         IN  IF fixed.kind = "nan" \/ capacity.kind = "nan" THEN [err |-> NoError, value |-> 0]
             ELSE IF fixed.kind = "text" \/ capacity.kind = "text"
             THEN [err |-> "TypeError", value |-> 0]
             ELSE IF fixed.kind = "inf" \/ capacity.kind = "inf"
             THEN [err |-> (IF fixed.v = 0 /\ capacity.v = 0 /\ fixed.kind # capacity.kind
                            THEN "ValueError" ELSE "OverflowError"), value |-> 0]
             ELSE [err |-> NoError, value |-> toegangsvermogen_formula(fixed.v, capacity.v)]

\* A handler that catches the missing column only.
except_KeyError(r) == IF r.err = "KeyError" THEN [err |-> NoError, value |-> 0] ELSE r

\* except Exception: return 0 (lines 594-595)
except_Exception(r) == IF r.err # NoError THEN [err |-> NoError, value |-> 0] ELSE r

\* get_toegangsvermogen_cost, lines 576-595
get_toegangsvermogen_cost(sh, name) ==
    IF sh.state = "absent" THEN [err |-> NoError, value |-> 0]
    ELSE except_Exception(toegangsvermogen_try(sh, name))

\* round_value (lines 79-89) of a column sum given in half euros
round_value(halves) == RoundHalfEven(halves, 2)
\* totals.get(column, 0)
TotalsGet(t, column) == IF column \in DOMAIN t THEN t[column] ELSE 0

\* A total that leaves the toegangsvermogen cost out.
total_costs_without_toegangsvermogen(gas, net, toegangsvermogen, co2) == gas + net + co2

\* total_costs, lines 218-225: round_value of a sum of whole numbers
total_costs(gas, net, toegangsvermogen, co2) ==
    round_value(2 * (gas + net + toegangsvermogen + co2))

\* create_scenario_overview, lines 190-225: the costs and their total
create_scenario_overview(t, sh, name) ==
    LET toegangsvermogen_cost == get_toegangsvermogen_cost(sh, name).value
        gas == round_value(TotalsGet(t, "Gas offtake_costs"))
        net == round_value(TotalsGet(t, "Electricity offtake_costs")
                           + TotalsGet(t, "Electricity injection_costs"))
        co2 == round_value(TotalsGet(t, "CO2 allowance_costs"))
    IN  [gas |-> gas, net |-> net, toegangsvermogen |-> toegangsvermogen_cost, co2 |-> co2,
         total_costs |-> total_costs(gas, net, toegangsvermogen_cost, co2)]

AnalysisNames == {"A", "B"}
\* Cost inputs of a row: 2.0 and 5; two ties; a blank in either cell; a cell
\* that holds text; an infinite cost.
CostCells == { <<Num(48000), Num(5)>>, <<Num(1), Num(1)>>, <<Num(3), Num(1)>>,
               <<NaN, Num(5)>>, <<Num(48000), NaN>>, <<Text, Num(5)>>, <<Inf, Num(5)>> }
SheetRows == { [Name |-> n, elec_grid_cost_power_fixed |-> c[1], e_boiler_capacity |-> c[2]] :
               n \in AnalysisNames, c \in CostCells }
SheetColumns == {"Name", "elec_grid_cost_power_fixed", "e_boiler_capacity"}
Sheets ==
    { [state |-> "absent", columns |-> {}, rows |-> <<>>],
      [state |-> "unreadable", columns |-> {}, rows |-> <<>>] }
    \cup { [state |-> "table", columns |-> cols, rows |-> rs] :
           cols \in {SheetColumns} \cup { SheetColumns \ {c} : c \in SheetColumns },
           rs \in UNION { [1..n -> SheetRows] : n \in 0..MaxRows } }

\* Column sums of a results file, in half euros.
TotalsChoices == { EmptyDict,
                   [c \in {"Gas offtake_costs"} |-> 401],
                   ("Gas offtake_costs" :> 401) @@ ("Electricity offtake_costs" :> 301)
                       @@ ("Electricity injection_costs" :> -100) @@ ("CO2 allowance_costs" :> 51) }

InitAnalysis == /\ sheet \in Sheets
                /\ totals \in TotalsChoices
                /\ acall = NoAnalysisCall
                /\ overview = NoOverview

CallCost ==
    \E name \in AnalysisNames :
        LET r == get_toegangsvermogen_cost(sheet, name) IN
        /\ acall' = [op |-> "cost", name |-> name, err |-> r.err, value |-> r.value]
        /\ UNCHANGED <<sheet, totals, overview, notAnalysis>>

CallOverview ==
    \E name \in AnalysisNames :
        LET o == create_scenario_overview(totals, sheet, name) IN
        /\ overview' = o
        /\ acall' = [op |-> "overview", name |-> name, err |-> NoError, value |-> o.total_costs]
        /\ UNCHANGED <<sheet, totals, notAnalysis>>

NextAnalysis == CallCost \/ CallOverview
StartAnalysis == InitAnalysis /\ IdleScenario /\ IdleStore /\ IdleBatch /\ IdleGraph /\ IdleData /\ IdleShared /\ clock = 0
SpecAnalysis == StartAnalysis /\ [][NextAnalysis]_vars

(***************************************************************************)
(* Claims on the toegangsvermogen cost                                     *)
(***************************************************************************)
\* The first row of the table that carries the name of the last call.
FoundRow == sheet.rows[CHOOSE i \in Matching(sheet, acall.name) :
                           \A j \in Matching(sheet, acall.name) : i <= j]
FoundCell(column) == IF column \in sheet.columns THEN FoundRow[column] ELSE Num(0)
RowFound == sheet.state = "table" /\ "Name" \in sheet.columns /\ Matching(sheet, acall.name) # {}
\* v is the whole number nearest to halves / 2, the even one on a tie.
IsRounded(v, halves) == /\ 2 * v - halves \in {-1, 0, 1}
                        /\ (halves % 2 = 1 => v % 2 = 0)

\* C12: when the table has a row of that name with both cost inputs numeric,
\* get_toegangsvermogen_cost returns round(fixed * capacity * 1000 * 12),
\* which is 120000 for 2.0 and 5; it returns 0 when no row has the name; and
\* the total of create_scenario_overview is gas + net electricity +
\* toegangsvermogen + CO2 allowance, the third being that function's value.
C12_ToegangsvermogenCost ==
    /\ (acall.op = "cost" /\ RowFound
        /\ FoundCell("elec_grid_cost_power_fixed").kind = "num"
        /\ FoundCell("e_boiler_capacity").kind = "num") =>
           /\ IsRounded(acall.value, FoundCell("elec_grid_cost_power_fixed").v
                                     * FoundCell("e_boiler_capacity").v)
           /\ (FoundCell("elec_grid_cost_power_fixed").v = 48000
               /\ FoundCell("e_boiler_capacity").v = 5) => acall.value = 120000
    /\ (acall.op = "cost" /\ ~RowFound) => acall.value = 0
    /\ acall.op = "overview" =>
           /\ overview.toegangsvermogen = get_toegangsvermogen_cost(sheet, acall.name).value
           /\ overview.total_costs = overview.gas + overview.net + overview.toegangsvermogen
                                     + overview.co2

\* An overview whose second row is the scenario's, with 2.0 and 5: 120000
\* is part of the total, next to three sums that were rounded on a tie.
C12_Witness ==
    /\ acall.op = "overview"
    /\ Len(sheet.rows) = 2 /\ sheet.rows[1].Name # acall.name
    /\ overview.toegangsvermogen = 120000
    /\ overview.gas = 200 /\ overview.net = 100 /\ overview.co2 = 26
    /\ overview.total_costs = 120326

\* C13: get_toegangsvermogen_cost never raises, and returns 0 when the file
\* is missing or unreadable, when the table has no Name column or no row of
\* that name, when a cost input is missing or blank, and when computing the
\* cost raises (a cell holding text, an infinite value).
C13_NeverFails ==
    acall.op = "cost" =>
        /\ acall.err = NoError
        /\ ~RowFound => acall.value = 0
        /\ (RowFound /\ \E column \in {"elec_grid_cost_power_fixed", "e_boiler_capacity"} :
                            \/ column \notin sheet.columns
                            \/ FoundCell(column).kind # "num") => acall.value = 0

\* A row whose cost cell holds text: the multiplication raised and 0 came back.
C13_Witness ==
    /\ acall.op = "cost" /\ RowFound
    /\ FoundCell("elec_grid_cost_power_fixed").kind = "text"
    /\ FoundCell("e_boiler_capacity").kind = "num"
    /\ acall.err = NoError /\ acall.value = 0

(***************************************************************************)
(* core/data_generator.py: the windows of get_data.  Time is counted in    *)
(* quarters of an hour from midnight of day 0; a date string is the        *)
(* midnight of its day.  Days have 24 hours (no change of clock falls in   *)
(* the windows).                                                           *)
(***************************************************************************)
\* pd.Timestamp("YYYY-MM-DD"): midnight of the day
Timestamp(day) == day * 96

\* pd.Timedelta(hours=n)
Timedelta(hours) == hours * 4

\* .strftime("%Y-%m-%d") read back by pd.Timestamp: the midnight of the day
\* the time falls in.
StrftimeDay(t) == (t \div 96) * 96

\* The step of a pandas frequency string.
Freqs == {"h", "D", "15T"}
FreqStep(freq) == CASE freq = "h" -> 4
                    [] freq = "D" -> 96
                    [] freq = "15T" -> 1

\* pd.date_range(start, end, freq): start, start + step, ... up to end.
date_range(start, end, freq) ==
    IF end < start THEN <<>>
    ELSE [i \in 1..((end - start) \div FreqStep(freq) + 1) |-> start + (i - 1) * FreqStep(freq)]

\* [:-1]
ButLast(s) == IF s = <<>> THEN <<>> ELSE SubSeq(s, 1, Len(s) - 1)

\* get_data lines 383-388: the start plus `length` hours, formatted as a date.
endtime(starttime, length, freq) == StrftimeDay(Timestamp(starttime) + Timedelta(length))

\* get_prices lines 53-56 and get_demands lines 129-131: the index of the frame.
window(starttime, end, freq) == ButLast(date_range(Timestamp(starttime), end, freq))

StartDays == 0..1
MaxLength == 49

\* get_data is about to be called with a price start, a demand start, a
\* length of at least 1 and a frequency.
InitData ==
    \E p \in StartDays, d \in StartDays, n \in 1..MaxLength, f \in Freqs :
        gen = [pc |-> "call", price_starttime |-> p, demand_starttime |-> d, length |-> n,
               freq |-> f, prices |-> <<>>, demands |-> <<>>]

\* get_data lines 383-392: the two end times and the two frames.
GetData ==
    /\ gen.pc = "call"
    /\ gen' = [gen EXCEPT
                 !.pc = "returned",
                 !.prices = window(gen.price_starttime,
                                   endtime(gen.price_starttime, gen.length, gen.freq), gen.freq),
                 !.demands = window(gen.demand_starttime,
                                    endtime(gen.demand_starttime, gen.length, gen.freq), gen.freq)]
    /\ UNCHANGED notData

NextData == GetData

StartData == InitData /\ IdleScenario /\ IdleStore /\ IdleBatch /\ IdleGraph /\ IdleAnalysis /\ IdleShared /\ clock = 0
SpecData == StartData /\ [][NextData]_vars

\* C21: for every price start, demand start, length >= 1 and frequency the
\* price window and the demand window of get_data each hold exactly
\* `length` time steps.
C21_ExactlyLengthPeriods ==
    gen.pc = "returned" =>
        /\ Len(gen.prices) = gen.length
        /\ Len(gen.demands) = gen.length

====
